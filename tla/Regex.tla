--------------------------------- MODULE Regex ---------------------------------
(***************************************************************************)
(* Regular expressions (src/xee-regex): the parsed tree, what is read off  *)
(* it before a search, and the program that both matchers run.             *)
(*                                                                         *)
(* A tree is a record with op: empty, set (chars), bol, eol, backref (nr), *)
(* group (nr or 0, node), concat and alt (parts), repeat (node, min, max   *)
(* or Unbounded, greedy).  Characters are one byte long; the ceilings of   *)
(* the compiler are left out.  Instructions are counted from one.          *)
(***************************************************************************)
EXTENDS Integers, SequencesExt, FiniteSetsExt

CONSTANTS
    RequiredMax,    \* MAX_REQUIRED_CHARS
    PrefixMax       \* MAX_PREFIX_BYTES

Unbounded == -1

-----------------------------------------------------------------------------
(* Analysis. *)

RECURSIVE MinLen(_), GroupsIn(_)

\* The length of the shortest match.
MinLen(e) ==
    CASE e.op \in {"empty", "bol", "eol", "backref"} -> 0
      [] e.op = "set"    -> 1
      [] e.op = "group"  -> MinLen(e.node)
      [] e.op = "concat" -> FoldLeft(LAMBDA n, part : n + MinLen(part), 0, e.parts)
      [] e.op = "alt"    -> Min({MinLen(part) : part \in Range(e.parts)})
      [] e.op = "repeat" -> e.min * MinLen(e.node)

\* The numbers of the capturing groups.
GroupsIn(e) ==
    CASE e.op = "group" -> GroupsIn(e.node) \cup IF e.nr = 0 THEN {} ELSE {e.nr}
      [] e.op \in {"concat", "alt"} -> UNION {GroupsIn(part) : part \in Range(e.parts)}
      [] e.op = "repeat" -> GroupsIn(e.node)
      [] OTHER -> {}

\* The capturing group that most closely encloses group n; 0 if none does.
RECURSIVE Encloses(_, _, _)

Encloses(e, n, outer) ==
    CASE e.op = "group" /\ e.nr = n -> {outer}
      [] e.op = "group" /\ e.nr # n -> Encloses(e.node, n, IF e.nr = 0 THEN outer ELSE e.nr)
      [] e.op \in {"concat", "alt"} -> UNION {Encloses(part, n, outer) : part \in Range(e.parts)}
      [] e.op = "repeat" -> Encloses(e.node, n, outer)
      [] OTHER -> {}

-----------------------------------------------------------------------------
(* Compiling. *)

Emit(s, op, a, b) == [s EXCEPT !.code = Append(@, [op |-> op, a |-> a, b |-> b])]

Patch(s, at, a, b) == [s EXCEPT !.code[at].a = a, !.code[at].b = b]

Here(s) == Len(s.code) + 1

\* The split between taking an iteration and leaving, in the order of choice.
PatchSplit(s, at, e, taken, skipped) ==
    IF e.greedy THEN Patch(s, at, taken, skipped) ELSE Patch(s, at, skipped, taken)

\* An optional iteration of a body that can match the empty string remembers
\* where it began, in the register of its nesting level.
EnterChecked(s, checked) ==
    IF checked
    THEN [Emit(s, "ProgressStart", s.depth, 0) EXCEPT
             !.depth = @ + 1, !.regs = Max({@, s.depth + 1})]
    ELSE s

LeaveChecked(s, checked) ==
    IF checked THEN [Emit(s, "ProgressCheck", s.depth - 1, 0) EXCEPT !.depth = @ - 1] ELSE s

\* A quantifier that takes no iteration unsets the groups in its body.
Clears(e) == e.min = 0 /\ GroupsIn(e.node) # {}

EmitClear(s, e) ==
    IF Clears(e) THEN Emit(s, "ClearGroups", Min(GroupsIn(e.node)), Max(GroupsIn(e.node)))
                 ELSE s

RECURSIVE Compile(_, _)

\* Each branch but the last is tried before the next one and jumps to the end.
CompileBranch(acc, part) ==
    IF acc.left = 1 THEN [acc EXCEPT !.s = Compile(acc.s, part)]
    ELSE LET split == Emit(acc.s, "Split", 0, 0)
             out   == Emit(Compile(split, part), "Jmp", 0, 0)
         IN  [s |-> Patch(out, Here(acc.s), Here(split), Here(out)),
              jumps |-> acc.jumps \cup {Len(out.code)}, left |-> acc.left - 1]

CompileAlt(s, e) ==
    LET all == FoldLeft(CompileBranch, [s |-> s, jumps |-> {}, left |-> Len(e.parts)], e.parts)
    IN  [all.s EXCEPT !.code = [i \in DOMAIN @ |->
            IF i \in all.jumps THEN [op |-> "Jmp", a |-> Here(all.s), b |-> 0] ELSE @[i]]]

\* X*: where leaving at once clears, the first choice has a split of its own.
CompileLoop(s, e) ==
    LET empty == MinLen(e.node) = 0
        first == IF Clears(e) THEN Emit(s, "Split", 0, 0) ELSE s
        split == Emit(first, "Split", 0, 0)
        check == LeaveChecked(Compile(EnterChecked(split, empty), e.node), empty)
        clear == Emit(check, "Jmp", Here(first), 0)
        end   == EmitClear(clear, e)
        left  == IF empty THEN Patch(end, Len(check.code), s.depth, Here(end)) ELSE end
        loop  == PatchSplit(left, Here(first), e, Here(split), Here(end))
    IN  IF Clears(e) THEN PatchSplit(loop, Here(s), e, Here(split), Here(clear)) ELSE loop

\* One optional copy.  A body without an instruction leaves nothing behind,
\* and no further copies are made.
CompileCopy(acc, copy) ==
    LET start == EnterChecked(Emit(acc.s, "Split", 0, 0), copy.checked)
        body  == Compile(start, copy.node)
        whole == LeaveChecked(body, copy.checked)
    IN  IF acc.over \/ Here(body) = Here(start) THEN [acc EXCEPT !.over = TRUE]
        ELSE [s |-> whole, over |-> FALSE,
              splits |-> Append(acc.splits, Here(acc.s)),
              checks |-> IF copy.checked THEN Append(acc.checks, Len(whole.code)) ELSE acc.checks]

\* Leaving at the first split clears; the others jump past that.
PatchExits(s, e, splits, clear, end) ==
    FoldLeft(LAMBDA t, k : PatchSplit(t, splits[k], e, splits[k] + 1, IF k = 1 THEN clear ELSE end),
             s, [k \in DOMAIN splits |-> k])

PatchChecks(s, checks, end) ==
    FoldLeft(LAMBDA t, c : Patch(t, c, t.code[c].a, end), s, checks)

\* The optional copies of X{n,m}: the last one needs no check.
CompileCopies(s, e) ==
    LET copies == [k \in 1..(e.max - e.min) |->
                     [node |-> e.node, checked |-> MinLen(e.node) = 0 /\ k < e.max - e.min]]
        all    == FoldLeft(CompileCopy,
                           [s |-> s, over |-> FALSE, splits |-> <<>>, checks |-> <<>>], copies)
        clear  == IF Clears(e) THEN Emit(all.s, "Jmp", 0, 0) ELSE all.s
        done   == EmitClear(clear, e)
        end    == IF Clears(e) THEN Patch(done, Len(clear.code), Here(done), 0) ELSE done
    IN  IF all.splits = <<>> THEN s
        ELSE PatchChecks(PatchExits(end, e, all.splits, Here(clear), Here(end)),
                         all.checks, Here(end))

CompileRepeat(s, e) ==
    LET required == FoldLeft(Compile, s, [i \in 1..e.min |-> e.node])
    IN  IF e.max = Unbounded THEN CompileLoop(required, e) ELSE CompileCopies(required, e)

\* A program always has its first instruction, so that the first case never
\* holds; it makes TLC evaluate the state before it goes down into the tree.
Compile(s, e) ==
    CASE s.code = <<>>     -> s
      [] e.op = "empty"    -> s
      [] e.op = "set"      -> Emit(s, "Set", e.chars, 0)
      [] e.op = "bol"      -> Emit(s, "Bol", 0, 0)
      [] e.op = "eol"      -> Emit(s, "Eol", 0, 0)
      [] e.op = "backref"  -> Emit(s, "Backref", e.nr, 0)
      [] e.op = "group" /\ e.nr # 0 ->
            Emit(Compile(Emit(s, "Save", 2 * e.nr + 1, 0), e.node), "Save", 2 * e.nr + 2, 0)
      [] e.op = "group" /\ e.nr = 0 -> Compile(s, e.node)
      [] e.op = "concat"   -> FoldLeft(Compile, s, e.parts)
      [] e.op = "alt"      -> CompileAlt(s, e)
      [] e.op = "repeat"   -> CompileRepeat(s, e)

\* Slots 1 and 2 hold the match, 2n + 1 and 2n + 2 group n.
CompileProgram(e) ==
    LET empty == [code |-> <<>>, depth |-> 0, regs |-> 0]
        whole == Compile(Emit(empty, "Save", 1, 0), e)
    IN  [code |-> Emit(Emit(whole, "Save", 2, 0), "Match", 0, 0).code,
         regs |-> whole.regs, slots |-> 2 * (Cardinality(GroupsIn(e)) + 1),
         backrefs |-> \E i \in DOMAIN whole.code : whole.code[i].op = "Backref"]

-----------------------------------------------------------------------------
(* The prefilter.  Something that may be missing is a set of at most one.  *)

Small(chars) == IF Cardinality(chars) <= RequiredMax THEN {chars} ELSE {}

Smaller(best, one) ==
    IF best = {} THEN one ELSE IF one = {} THEN best
    ELSE IF Cardinality(CHOOSE S \in one : TRUE) < Cardinality(CHOOSE S \in best : TRUE)
    THEN one ELSE best

\* A branch without a set leaves the whole without one.
Joint(all, one) == UNION {Small(S \cup T) : S \in all, T \in one}

RECURSIVE Required(_), Anchored(_), Prefix(_)

\* A small set that every match holds a character of.
Required(e) ==
    CASE e.op = "set"    -> Small(e.chars)
      [] e.op = "group"  -> Required(e.node)
      [] e.op = "concat" -> FoldLeft(LAMBDA best, part : Smaller(best, Required(part)), {}, e.parts)
      [] e.op = "alt"    -> FoldLeft(LAMBDA all, part : Joint(all, Required(part)), {{}}, e.parts)
      [] e.op = "repeat" -> IF e.min > 0 THEN Required(e.node) ELSE {}
      [] OTHER           -> {}

\* Every match passes a ^.
Anchored(e) ==
    CASE e.op = "bol"    -> TRUE
      [] e.op = "group"  -> Anchored(e.node)
      [] e.op = "concat" -> \E part \in Range(e.parts) : Anchored(part)
      [] e.op = "alt"    -> \A part \in Range(e.parts) : Anchored(part)
      [] e.op = "repeat" -> e.min > 0 /\ Anchored(e.node)
      [] OTHER           -> FALSE

Literal(text, whole) == [text |-> text, whole |-> whole]

Cut(text) == SubSeq(text, 1, Min({Len(text), PrefixMax}))

\* A part that is not whole ends the literal, and so does the limit.
Extend(acc, p) ==
    IF ~acc.whole THEN acc
    ELSE IF p.whole /\ Len(acc.text) + Len(p.text) <= PrefixMax
    THEN Literal(acc.text \o p.text, TRUE)
    ELSE Literal(Cut(acc.text \o p.text), FALSE)

Common(p, q) ==
    LET text == LongestCommonPrefix({p.text, q.text})
    IN  Literal(text, p.whole /\ q.whole /\ text = p.text /\ text = q.text)

Repeated(text, n) == FlattenSeq([i \in 1..n |-> text])

\* A literal repeated as often as the minimum says, within the limit.
PrefixOfCopies(e, p, copies) ==
    Literal(Cut(Repeated(p.text, copies)),
            /\ e.max = e.min /\ copies = e.min
            /\ Len(Repeated(p.text, copies)) <= PrefixMax)

PrefixOfRepeat(e, p) ==
    IF e.min = 0 THEN Literal(<<>>, FALSE)
    ELSE IF ~p.whole \/ p.text = <<>> THEN Literal(p.text, FALSE)
    ELSE PrefixOfCopies(e, p, Min({e.min, PrefixMax \div Len(p.text) + 1}))

\* The text that every match begins with, and whether it is the whole match.
Prefix(e) ==
    CASE e.op \in {"empty", "bol", "eol"} -> Literal(<<>>, TRUE)
      [] e.op = "backref" -> Literal(<<>>, FALSE)
      [] e.op = "set"     -> IF Cardinality(e.chars) = 1
                             THEN Literal(<<CHOOSE c \in e.chars : TRUE>>, TRUE)
                             ELSE Literal(<<>>, FALSE)
      [] e.op = "group"   -> Prefix(e.node)
      [] e.op = "concat"  -> FoldLeft(LAMBDA acc, part : Extend(acc, Prefix(part)),
                                      Literal(<<>>, TRUE), e.parts)
      [] e.op = "alt"     -> FoldLeft(LAMBDA acc, part : Common(acc, Prefix(part)),
                                      Prefix(Head(e.parts)), Tail(e.parts))
      [] e.op = "repeat"  -> PrefixOfRepeat(e, Prefix(e.node))

-----------------------------------------------------------------------------
(* The text to search: hay has text and the flag multiline. *)

\* ^ and $: the whole text, or with flag m its lines; a newline that ends the
\* text begins no line, and is the end of the last one.
LineStart(hay, pos) ==
    pos = 1 \/ (hay.multiline /\ hay.text[pos - 1] = "newline" /\ pos <= Len(hay.text))

LineEnd(hay, pos) ==
    IF ~hay.multiline THEN pos = Len(hay.text) + 1
    ELSE IF pos = Len(hay.text) + 1 THEN hay.text = <<>> \/ Last(hay.text) # "newline"
    ELSE hay.text[pos] = "newline"

\* The windows of a scan: each twice as long as the one before.
RECURSIVE FindAny(_, _, _, _), FindLiteral(_, _, _, _)

FindAny(text, chars, at, window) ==
    LET end   == Min({at + window, Len(text) + 1})
        found == {i \in at .. end - 1 : text[i] \in chars}
    IN  IF at > Len(text) THEN 0
        ELSE IF found # {} THEN Min(found)
        ELSE FindAny(text, chars, end, 2 * window)

\* A window also reads the literal's length less one past its last start.
FindLiteral(text, literal, at, window) ==
    LET starts == Min({at + window, Len(text) + 1})
        end    == Min({starts + Len(literal) - 1, Len(text) + 1})
        found  == {i \in at .. end - Len(literal) :
                     SubSeq(text, i, i + Len(literal) - 1) = literal}
    IN  IF at + Len(literal) > Len(text) + 1 THEN 0
        ELSE IF found # {} THEN Min(found)
        ELSE FindLiteral(text, literal, starts, 2 * window)

\* Regex::build
Build(e, multiline) ==
    [tree |-> e, program |-> CompileProgram(e), multiline |-> multiline,
     minLen |-> MinLen(e), groups |-> GroupsIn(e),
     parent |-> [n \in GroupsIn(e) |-> CHOOSE p \in Encloses(e, n, 0) : TRUE],
     required |-> Required(e), prefix |-> Prefix(e).text,
     anchored |-> ~multiline /\ Anchored(e)]
=============================================================================
