------------------------------ MODULE RegexMeaning ------------------------------
(***************************************************************************)
(* What a regular expression means, by recursion on its tree: the ways in  *)
(* which it matches from a place, the preferred one first, each with the   *)
(* place after it and the last capture of each group.  It has no program,  *)
(* no threads and no stack, and models no code.                            *)
(***************************************************************************)
EXTENDS Regex

Nothing == <<>>

At(pos, caps) == [pos |-> pos, caps |-> caps]

\* The captured text again; a group without a capture matches the empty text.
Again(hay, st, nr) ==
    LET cap  == st.caps[nr]
        size == IF cap = Nothing THEN 0 ELSE cap[2] - cap[1]
    IN  IF /\ st.pos + size <= Len(hay.text) + 1
           /\ cap # Nothing =>
                SubSeq(hay.text, cap[1], cap[2] - 1) = SubSeq(hay.text, st.pos, st.pos + size - 1)
        THEN <<At(st.pos + size, st.caps)>> ELSE <<>>

If(b, st) == IF b THEN <<st>> ELSE <<>>

RECURSIVE Ways(_, _, _), WaysAll(_, _, _), Iterations(_, _, _, _)

Then(hay, rest, ways) ==
    FlattenSeq([i \in DOMAIN ways |-> WaysAll(hay, rest, ways[i])])

\* The parts one after the other.
WaysAll(hay, parts, st) ==
    IF parts = <<>> THEN <<st>>
    ELSE Then(hay, Tail(parts), Ways(hay, Head(parts), st))

\* k iterations are done.  An optional iteration that matches the empty text
\* is the last; taking none unsets the groups.
Iterations(hay, e, k, st) ==
    LET ways  == Ways(hay, e.node, st)
        After(way) == IF k >= e.min /\ way.pos = st.pos THEN <<way>>
                      ELSE Iterations(hay, e, k + 1, way)
        taken == IF e.max # Unbounded /\ k = e.max THEN <<>>
                 ELSE FlattenSeq([i \in DOMAIN ways |-> After(ways[i])])
        left  == IF k < e.min THEN <<>>
                 ELSE IF k > 0 THEN <<st>>
                 ELSE <<At(st.pos, [n \in DOMAIN st.caps |->
                          IF n \in GroupsIn(e.node) THEN Nothing ELSE st.caps[n]])>>
    IN  IF e.greedy THEN taken \o left ELSE left \o taken

Captured(e, st, way) ==
    IF e.nr = 0 THEN way ELSE [way EXCEPT !.caps[e.nr] = <<st.pos, way.pos>>]

Ways(hay, e, st) ==
    CASE e.op = "empty"   -> <<st>>
      [] e.op = "set"     -> If(st.pos <= Len(hay.text) /\ hay.text[st.pos] \in e.chars,
                                At(st.pos + 1, st.caps))
      [] e.op = "bol"     -> If(LineStart(hay, st.pos), st)
      [] e.op = "eol"     -> If(LineEnd(hay, st.pos), st)
      [] e.op = "backref" -> Again(hay, st, e.nr)
      [] e.op = "group"   -> LET ways == Ways(hay, e.node, st)
                             IN  [i \in DOMAIN ways |-> Captured(e, st, ways[i])]
      [] e.op = "concat"  -> WaysAll(hay, e.parts, st)
      [] e.op = "alt"     -> FlattenSeq([i \in DOMAIN e.parts |-> Ways(hay, e.parts[i], st)])
      [] e.op = "repeat"  -> Iterations(hay, e, 0, st)

-----------------------------------------------------------------------------

WaysFrom(r, hay, pos) == Ways(hay, r.tree, At(pos, [n \in r.groups |-> Nothing]))

Starts(r, hay, pos) == {p \in pos .. Len(hay.text) + 1 : WaysFrom(r, hay, p) # <<>>}

\* Group 0, the match, and the groups.
Whole(r, pos, way) == (0 :> <<pos, way.pos>>) @@ way.caps

\* The leftmost match from a place on, the preferred one of those.
MatchFrom(r, hay, pos) ==
    IF Starts(r, hay, pos) = {} THEN <<>>
    ELSE LET p == Min(Starts(r, hay, pos))
         IN  <<Whole(r, p, Head(WaysFrom(r, hay, p)))>>

RECURSIVE MatchesFrom(_, _, _)

\* One match after the other, a character further behind an empty one.
MatchesFrom(r, hay, pos) ==
    IF pos > Len(hay.text) + 1 THEN <<>>
    ELSE LET found == MatchFrom(r, hay, pos)
         IN  IF found = <<>> THEN <<>>
             ELSE found \o MatchesFrom(r, hay,
                     IF found[1][0][2] > found[1][0][1] THEN found[1][0][2]
                                                        ELSE found[1][0][2] + 1)
=============================================================================
