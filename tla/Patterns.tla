-------------------------------- MODULE Patterns --------------------------------
(***************************************************************************)
(* Whether an item matches the pattern of a template rule.                 *)
(*                                                                         *)
(* A pattern is either                                                     *)
(*   [op |-> "predicates", preds]   `.[...]...`, which any item can match  *)
(*   [op |-> "paths", links]        paths combined from the left; a link   *)
(*       is [how, path], how is "First", "Union", "Intersect" or "Except"  *)
(* A path is [root, steps]; its root is "relative", "slash" or             *)
(* "doubleSlash", a step is [axis, test, preds].  The predicates of a      *)
(* pattern are numbered in the order in which they are written.            *)
(*                                                                         *)
(* A predicate is a call-back into the program, which may run for long.    *)
(* So the matching is stated as a function of the answers known so far: it *)
(* says yes, no, or which predicate it asks next of which item.            *)
(*                                                                         *)
(* Parentheses in patterns and paths rooted at a variable or a function    *)
(* are left out.                                                           *)
(***************************************************************************)
EXTENDS Values

Yes == [matches |-> TRUE]
No  == [matches |-> FALSE]
Question(pred, item) == [pred |-> pred, item |-> item]

IsQuestion(v) == v \notin {Yes, No}

\* The second is looked at only if the first does not decide.
Both(v, w)   == IF v = Yes THEN w ELSE v
Either(v, w) == IF v = No THEN w ELSE v
Reversed(v)  == CASE v = Yes -> No [] v = No -> Yes [] OTHER -> v
YesIf(condition) == IF condition THEN Yes ELSE No

Holds(pred, item, known) ==
    LET q == Question(pred, item)
    IN  IF q \in DOMAIN known THEN YesIf(known[q]) ELSE q

AllHold(preds, item, known) ==
    FoldLeft(LAMBDA v, pred : Both(v, Holds(pred, item, known)), Yes, preds)

\* A name test with a star is true of every node, the document node too.
PatternTest(test, n) == test = "*" \/ NodeTest(test, n)

MatchesStep(step, n, known) ==
    IF PatternTest(step.test, n) THEN AllHold(step.preds, NodeItem(n), known) ELSE No

\* Steps are matched from the last to the first.  What is reached is a state
\* [node, axis, verdict]: the node that the next step must match, 0 if there is
\* none, the axis of the step matched before, and whether it matches or which
\* predicate is to be asked first.
Candidates(s, step, known) ==
    LET upwards == OnAxis(IF s.axis = "descendant" THEN "ancestor-or-self" ELSE "self", s.node)
    IN  IF s.node = 0 THEN {} ELSE {n \in upwards : MatchesStep(step, n, known) # No}

\* After a descendant step the nearest node upwards that matches is taken, and
\* no other is tried.  After self and descendant-or-self nothing matches.
ReachedFrom(s, step, known) ==
    LET candidates == Candidates(s, step, known)
        reached == {[node |-> Tree[n].parent, axis |-> step.axis,
                     verdict |-> MatchesStep(step, n, known)] :
                        n \in {n \in candidates : \A m \in candidates : m <= n}}
    IN  IF s.axis \in {"self", "descendant-or-self"} THEN {r \in reached : IsQuestion(r.verdict)}
                                                   ELSE reached

\* One state or none.
MatchBackwards(states, step, known) ==
    UNION {IF IsQuestion(s.verdict) THEN {s} ELSE ReachedFrom(s, step, known) : s \in states}

MatchesPath(path, n, known) ==
    LET start == [node |-> n, axis |-> "child", verdict |-> Yes]
        ends == FoldLeft(LAMBDA states, step : MatchBackwards(states, step, known),
                         {start}, Reverse(path.steps))
        AtTop(end) == CASE path.root = "relative"    -> TRUE
                        [] path.root = "slash"       -> end.node # 0 /\ Tree[end.node].parent = 0
                        [] path.root = "doubleSlash" -> end.node # 0
        Matched(end) == Both(end.verdict, YesIf(AtTop(end)))
    IN  IF ends = {} THEN No ELSE Matched(CHOOSE end \in ends : TRUE)

Combine(v, how, w) ==
    CASE how \in {"First", "Union"} -> Either(v, w)
      [] how = "Intersect"          -> Both(v, w)
      [] how = "Except"             -> Both(v, Reversed(w))

Verdict(pattern, item, known) ==
    CASE pattern.op = "predicates" -> AllHold(pattern.preds, item, known)
      [] ~ IsNode(item)            -> No
      [] OTHER ->
            FoldLeft(LAMBDA v, link : Combine(v, link.how, MatchesPath(link.path, item.node, known)),
                     No, pattern.links)

-----------------------------------------------------------------------------
(* The position that a predicate of a pattern sees is that among all the   *)
(* children of the parent.                                                 *)

Siblings(item) ==
    IF ~ IsNode(item) THEN {item}
    ELSE IF Up(item.node) = {} THEN {item.node}
    ELSE OnAxis("child", Tree[item.node].parent)

ChildIndex(item) ==
    IF IsNode(item) THEN Cardinality({m \in Siblings(item) : m <= item.node}) ELSE 1
===============================================================================
