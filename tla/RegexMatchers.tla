------------------------------ MODULE RegexMatchers ------------------------------
(***************************************************************************)
(* The two matchers of src/xee-regex and the search around them.  A call   *)
(* finds one match after the other: as the library runs it, with the       *)
(* prefilter, on the PikeVM unless the program has back-references; then   *)
(* again on the backtracker without the prefilter, as the tests of the     *)
(* library do.  The PikeVM keeps, at each position, one thread per         *)
(* instruction in the order of priority; the backtracker keeps a stack of  *)
(* choices and undo records.  Budgets are left out.                        *)
(***************************************************************************)
EXTENDS RegexMeaning

CONSTANTS
    Regexes,    \* built regular expressions, in a function
    Calls       \* the set of calls: regex (which), text, need

VARIABLES
    call,       \* the call
    answers,    \* the matches of the finished runs, and of the current one
    control,    \* where it is: find, position, closure, threads, begin, run, done
    start,      \* where the current search starts
    pike,       \* the PikeVM: pos, cur, next, i, stack, curr, into, found, matched
    back        \* the backtracker: pc, pos, at, slots, regs, stack

rvars == <<call, answers, control, start, pike, back>>

None == 0

R    == Regexes[call.regex]
P    == R.program
Text == call.text
Hay  == [text |-> call.text, multiline |-> R.multiline]
Past == Len(Text) + 1

\* The first run is the library's own, the second one the comparison.
Production == Len(answers) = 1
OnPike     == Production /\ ~P.backrefs

\* The slots that the call keeps.
Width == CASE call.need = "exists" -> 0 [] call.need = "bounds" -> 2
           [] call.need = "groups" -> P.slots

Unset(n) == [k \in 1..n |-> None]

NoThreads == [keys |-> <<>>, rows |-> <<>>]

FreshPike == [pos |-> 0, cur |-> NoThreads, next |-> NoThreads, i |-> 1, stack |-> <<>>,
              curr |-> <<>>, into |-> "cur", found |-> <<>>, matched |-> FALSE]

FreshBack == [pc |-> 1, pos |-> 0, at |-> 0, slots |-> <<>>, regs |-> <<>>, stack |-> <<>>]

RegexInit ==
    /\ call \in Calls
    /\ answers = << <<>> >> /\ control = "find" /\ start = 1
    /\ pike = FreshPike /\ back = FreshBack

-----------------------------------------------------------------------------
(* The search for one match. *)

\* What the prefilter and the length rule out before a matcher runs.
RuledOut ==
    \/ R.minLen > Len(Text) - (start - 1)
    \/ /\ Production
       /\ \/ R.anchored /\ (start > 1 \/ ~IsPrefix(R.prefix, Text))
          \/ \E chars \in R.required : FindAny(Text, chars, start, 1) = 0

AnchoredHere == Production /\ R.anchored

\* The literal that the search skips to.
Skips == IF Production /\ ~R.anchored THEN R.prefix ELSE <<>>

\* Where the search goes on from pos; 0 if nowhere.
SkipTo(pos) == IF Skips = <<>> THEN pos ELSE FindLiteral(Text, Skips, pos, 1)

\* No further match: the other run, or the end.
Finish ==
    /\ IF Production
       THEN answers' = Append(answers, <<>>) /\ control' = "find" /\ start' = 1
       ELSE control' = "done" /\ UNCHANGED <<answers, start>>
    /\ pike' = FreshPike /\ back' = FreshBack
    /\ UNCHANGED call

\* A match: the next search starts behind it, a character further if it is
\* empty.  Whether there is a match is known after the first.
Report(slots) ==
    /\ answers' = [answers EXCEPT ![Len(answers)] = Append(@, slots)]
    /\ control' = "find"
    /\ start' = IF Len(slots) < 2 THEN Past + 1
                ELSE IF slots[2] > slots[1] THEN slots[2] ELSE slots[2] + 1
    /\ pike' = FreshPike /\ back' = FreshBack
    /\ UNCHANGED call

FindNone == control = "find" /\ (start > Past \/ RuledOut) /\ Finish

Find ==
    /\ control = "find" /\ start <= Past /\ ~RuledOut
    /\ control' = IF OnPike THEN "position" ELSE "begin"
    /\ pike' = [FreshPike EXCEPT !.pos = start]
    /\ back' = [FreshBack EXCEPT !.pos = start]
    /\ UNCHANGED <<call, answers, start>>

-----------------------------------------------------------------------------
(* The PikeVM. *)

PikeGoes(p, c) ==
    /\ pike' = p /\ control' = c
    /\ UNCHANGED <<call, answers, start, back>>

\* The search is over: what was found, if anything.
PikeEnd ==
    IF pike.matched THEN Report(pike.found) ELSE Finish

\* A search without threads goes on where the literal next occurs.
PikeSkipped ==
    IF ~pike.matched /\ pike.cur.keys = <<>> THEN SkipTo(pike.pos) ELSE pike.pos

\* No thread begins past an anchored start.
Begins(pos) == ~pike.matched /\ (pos = start \/ ~AnchoredHere)

PikeNowhere == control = "position" /\ PikeSkipped = 0 /\ Finish

\* A new thread, below every earlier one.
PikeBegin ==
    /\ control = "position" /\ PikeSkipped # 0 /\ Begins(PikeSkipped)
    /\ PikeGoes([pike EXCEPT !.pos = PikeSkipped, !.curr = Unset(Width), !.into = "cur",
                             !.stack = <<[op |-> "explore", pc |-> 1, s |-> 0]>>], "closure")

PikeThreads ==
    /\ control = "position" /\ PikeSkipped # 0 /\ ~Begins(PikeSkipped)
    /\ PikeGoes([pike EXCEPT !.i = 1], "threads")

(* The closure: frames are explored, the last one first. *)

Top == Last(pike.stack)

List == IF pike.into = "cur" THEN pike.cur ELSE pike.next
Place == IF pike.into = "cur" THEN pike.pos ELSE pike.pos + 1

WithList(p, list) == IF pike.into = "cur" THEN [p EXCEPT !.cur = list] ELSE [p EXCEPT !.next = list]

Consuming(pc) == P.code[pc].op \in {"Set", "Match"}

\* Variant for the checks: threads are told apart by the instruction alone.
KeyOfPc(pc, s) == <<pc, 0>>

\* Threads are told apart by the instruction and the iterations begun here.
Key(pc, s) == <<pc, IF Consuming(pc) THEN 0 ELSE s>>

Explore(pc, s) == [op |-> "explore", pc |-> pc, s |-> s]

\* The frame gives way to those of fs, and the slots to curr.
Explored(fs, curr) ==
    PikeGoes(WithList([pike EXCEPT !.stack = Front(@) \o fs, !.curr = curr],
                      [List EXCEPT !.keys = Append(@, Key(Top.pc, Top.s))]), "closure")

Visits == /\ control = "closure" /\ pike.stack # <<>> /\ Top.op = "explore"
          /\ Key(Top.pc, Top.s) \notin Range(List.keys)

At1(op) == Visits /\ P.code[Top.pc].op = op

Inst == P.code[Top.pc]

Restore ==
    /\ control = "closure" /\ pike.stack # <<>> /\ Top.op = "restore"
    /\ PikeGoes([pike EXCEPT !.stack = Front(@), !.curr[Top.slot] = Top.value], "closure")

Visited ==
    /\ control = "closure" /\ pike.stack # <<>> /\ Top.op = "explore"
    /\ Key(Top.pc, Top.s) \in Range(List.keys)
    /\ PikeGoes([pike EXCEPT !.stack = Front(@)], "closure")

\* A thread waits here.
AddThread ==
    /\ Visits /\ Consuming(Top.pc)
    /\ PikeGoes(WithList([pike EXCEPT !.stack = Front(@)],
                         [keys |-> Append(List.keys, Key(Top.pc, Top.s)),
                          rows |-> (Top.pc :> pike.curr) @@ List.rows]), "closure")

ExploreSplit ==
    At1("Split") /\ Explored(<<Explore(Inst.b, Top.s), Explore(Inst.a, Top.s)>>, pike.curr)

ExploreJmp == At1("Jmp") /\ Explored(<<Explore(Inst.a, Top.s)>>, pike.curr)

\* The old value of a slot comes back when what follows has been explored.
Undo(k) == [op |-> "restore", slot |-> k, value |-> pike.curr[k]]

ExploreSave ==
    /\ At1("Save")
    /\ IF Inst.a <= Width
       THEN Explored(<<Undo(Inst.a), Explore(Top.pc + 1, Top.s)>>,
                     [pike.curr EXCEPT ![Inst.a] = Place])
       ELSE Explored(<<Explore(Top.pc + 1, Top.s)>>, pike.curr)

ExploreAnchor ==
    \E op \in {"Bol", "Eol"} :
        /\ At1(op)
        /\ Explored(IF IF op = "Bol" THEN LineStart(Hay, Place) ELSE LineEnd(Hay, Place)
                    THEN <<Explore(Top.pc + 1, Top.s)>> ELSE <<>>, pike.curr)

ExploreProgressStart ==
    At1("ProgressStart") /\ Explored(<<Explore(Top.pc + 1, Top.s + 1)>>, pike.curr)

\* An iteration that began here was empty and ends the repetition.
ExploreProgressCheck ==
    /\ At1("ProgressCheck")
    /\ Explored(<<IF Top.s > 0 THEN Explore(Inst.b, Top.s - 1) ELSE Explore(Top.pc + 1, 0)>>,
                pike.curr)

\* The slots of the groups a to b, as far as they are kept.
Cleared(inst, n) == SelectSeq([k \in 1..n |-> k],
    LAMBDA k : 2 * inst.a + 1 <= k /\ k <= 2 * inst.b + 2)

Clear(slots, cleared) ==
    [k \in DOMAIN slots |-> IF k \in Range(cleared) THEN None ELSE slots[k]]

ExploreClear ==
    /\ At1("ClearGroups")
    /\ \E cleared \in {Cleared(Inst, Width)} :
          Explored([i \in DOMAIN cleared |-> Undo(cleared[i])] \o <<Explore(Top.pc + 1, Top.s)>>,
                   Clear(pike.curr, cleared))

ClosureDone ==
    /\ control = "closure" /\ pike.stack = <<>>
    /\ PikeGoes([pike EXCEPT !.i = IF pike.into = "cur" THEN 1 ELSE @ + 1], "threads")

(* The threads of a position, in the order of their priority. *)

Waiting == {j \in pike.i .. Len(pike.cur.keys) : Consuming(pike.cur.keys[j][1])}
Pc      == pike.cur.keys[Min(Waiting)][1]
Row     == pike.cur.rows[Pc]

Turn(op) ==
    control = "threads" /\ pike.cur.keys # <<>> /\ Waiting # {} /\ P.code[Pc].op = op

Accepts == pike.pos <= Len(Text) /\ Text[pike.pos] \in P.code[Pc].a

ThreadDies ==
    /\ Turn("Set") /\ ~Accepts
    /\ PikeGoes([pike EXCEPT !.i = Min(Waiting) + 1], "threads")

\* A class right behind this one: the thread waits there at once.
ThreadSteps ==
    /\ Turn("Set") /\ Accepts /\ P.code[Pc + 1].op = "Set"
    /\ PikeGoes([pike EXCEPT
          !.i = Min(Waiting) + 1,
          !.next = IF <<Pc + 1, 0>> \in Range(@.keys) THEN @
                   ELSE [keys |-> Append(@.keys, <<Pc + 1, 0>>), rows |-> (Pc + 1 :> Row) @@ @.rows]],
          "threads")

ThreadGoesOn ==
    /\ Turn("Set") /\ Accepts /\ P.code[Pc + 1].op # "Set"
    /\ PikeGoes([pike EXCEPT !.i = Min(Waiting), !.curr = Row, !.into = "next",
                             !.stack = <<Explore(Pc + 1, 0)>>], "closure")

\* The threads behind one that matched have lower priority and end.
Outranked(p) == [p EXCEPT !.i = Len(pike.cur.keys) + 1]

ThreadMatches ==
    /\ Turn("Match")
    /\ IF Width = 0 THEN Report(<<>>)
       ELSE PikeGoes(Outranked([pike EXCEPT !.found = Row, !.matched = TRUE]), "threads")

NoThreadLeft == control = "threads" /\ (pike.cur.keys = <<>> \/ Waiting = {})

PikeAdvance ==
    /\ NoThreadLeft /\ pike.cur.keys # <<>> /\ pike.pos <= Len(Text)
    /\ PikeGoes([pike EXCEPT !.pos = @ + 1, !.cur = pike.next, !.next = NoThreads], "position")

PikeStops == NoThreadLeft /\ (pike.cur.keys = <<>> \/ pike.pos > Len(Text)) /\ PikeEnd

-----------------------------------------------------------------------------
(* The backtracker. *)

BackGoes(b, c) ==
    /\ back' = b /\ control' = c
    /\ UNCHANGED <<call, answers, start, pike>>

BackNowhere == control = "begin" /\ SkipTo(back.pos) = 0 /\ Finish

\* run_at: every start sets up all slots and registers.
BackBegin ==
    /\ control = "begin" /\ SkipTo(back.pos) # 0
    /\ BackGoes([FreshBack EXCEPT !.pos = SkipTo(back.pos), !.at = SkipTo(back.pos),
                                  !.slots = Unset(P.slots), !.regs = Unset(P.regs)], "run")

Runs(op) == control = "run" /\ P.code[back.pc].op = op

Step == P.code[back.pc]

\* On with the instruction pc, with the frames fs pushed.
On(b, pc, fs) == BackGoes([b EXCEPT !.pc = pc, !.stack = @ \o fs], "run")

ChoicePoints == {k \in DOMAIN back.stack : back.stack[k].op = "alt"}

\* Of the undo records of a slot or register above the choice, the oldest one
\* is undone last and wins.
Undone(values, op, from) ==
    [k \in DOMAIN values |->
        LET undos == {j \in from .. Len(back.stack) : back.stack[j].op = op /\ back.stack[j].k = k}
        IN  IF undos = {} THEN values[k] ELSE back.stack[Min(undos)].value]

\* Back to the last choice; without one, to the next start.
Fails ==
    IF ChoicePoints # {}
    THEN BackGoes([back EXCEPT
            !.pc = back.stack[Max(ChoicePoints)].k, !.pos = back.stack[Max(ChoicePoints)].value,
            !.slots = Undone(@, "slot", Max(ChoicePoints) + 1),
            !.regs  = Undone(@, "reg", Max(ChoicePoints) + 1),
            !.stack = SubSeq(@, 1, Max(ChoicePoints) - 1)], "run")
    ELSE IF AnchoredHere \/ back.at > Len(Text) THEN Finish
    ELSE BackGoes([FreshBack EXCEPT !.pos = back.at + 1], "begin")

BackSet ==
    /\ Runs("Set")
    /\ IF back.pos <= Len(Text) /\ Text[back.pos] \in Step.a
       THEN On([back EXCEPT !.pos = @ + 1], back.pc + 1, <<>>)
       ELSE Fails

BackSplit ==
    Runs("Split") /\ On(back, Step.a, <<[op |-> "alt", k |-> Step.b, value |-> back.pos]>>)

BackJmp == Runs("Jmp") /\ On(back, Step.a, <<>>)

UndoSlot(k) == [op |-> "slot", k |-> k, value |-> back.slots[k]]

BackSave ==
    /\ Runs("Save")
    /\ On([back EXCEPT !.slots[Step.a] = back.pos], back.pc + 1, <<UndoSlot(Step.a)>>)

BackAnchor ==
    \E op \in {"Bol", "Eol"} :
        /\ Runs(op)
        /\ IF IF op = "Bol" THEN LineStart(Hay, back.pos) ELSE LineEnd(Hay, back.pos)
           THEN On(back, back.pc + 1, <<>>) ELSE Fails

\* The text of a capture, if both of its slots are set.
CaptureOf(nr) ==
    IF back.slots[2 * nr + 1] # None /\ back.slots[2 * nr + 2] # None
    THEN SubSeq(Text, back.slots[2 * nr + 1], back.slots[2 * nr + 2] - 1) ELSE <<>>

BackBackref ==
    /\ Runs("Backref")
    /\ IF IsPrefix(CaptureOf(Step.a), SubSeq(Text, back.pos, Len(Text)))
       THEN On([back EXCEPT !.pos = @ + Len(CaptureOf(Step.a))], back.pc + 1, <<>>)
       ELSE Fails

BackProgressStart ==
    /\ Runs("ProgressStart")
    /\ On([back EXCEPT !.regs[Step.a + 1] = back.pos], back.pc + 1,
          <<[op |-> "reg", k |-> Step.a + 1, value |-> back.regs[Step.a + 1]]>>)

BackProgressCheck ==
    /\ Runs("ProgressCheck")
    /\ On(back, IF back.regs[Step.a + 1] = back.pos THEN Step.b ELSE back.pc + 1, <<>>)

BackClear ==
    /\ Runs("ClearGroups")
    /\ \E cleared \in {Cleared(Step, P.slots)} :
          On([back EXCEPT !.slots = Clear(@, cleared)], back.pc + 1,
             [i \in DOMAIN cleared |-> UndoSlot(cleared[i])])

BackMatch == Runs("Match") /\ Report(back.slots)

-----------------------------------------------------------------------------
(* The tree of the groups of a match (fn:analyze-string). *)

Span(slots, n) == <<slots[2 * n + 1], slots[2 * n + 2]>>

TookPart(slots) == {n \in R.groups : None \notin Range(Span(slots, n))}

\* Variant for the checks: an enclosing group that took part is enough.
SurroundsAnyhow(slots, p, n) == p \in TookPart(slots)

Surrounds(slots, p, n) ==
    /\ p \in TookPart(slots)
    /\ Span(slots, p)[1] <= Span(slots, n)[1] /\ Span(slots, n)[2] <= Span(slots, p)[2]

\* The nearest enclosing group whose capture contains that of n.
RECURSIVE Under(_, _, _)

Under(slots, n, p) ==
    IF p = 0 \/ Surrounds(slots, p, n) THEN p ELSE Under(slots, n, R.parent[p])

Before(slots, n, m) ==
    \/ Span(slots, n)[1] < Span(slots, m)[1]
    \/ Span(slots, n)[1] = Span(slots, m)[1] /\ Span(slots, n)[2] < Span(slots, m)[2]
    \/ Span(slots, n) = Span(slots, m) /\ n < m

\* The children of p in the order they are emitted.
Children(slots, p) ==
    SetToSortSeq({n \in TookPart(slots) : Under(slots, n, R.parent[n]) = p},
                 LAMBDA n, m : Before(slots, n, m))

-----------------------------------------------------------------------------

RegexNext ==
    \/ FindNone \/ Find
    \/ PikeNowhere \/ PikeBegin \/ PikeThreads
    \/ Restore \/ Visited \/ AddThread \/ ExploreSplit \/ ExploreJmp \/ ExploreSave
    \/ ExploreAnchor \/ ExploreProgressStart \/ ExploreProgressCheck \/ ExploreClear
    \/ ClosureDone \/ ThreadDies \/ ThreadSteps \/ ThreadGoesOn \/ ThreadMatches
    \/ PikeAdvance \/ PikeStops
    \/ BackNowhere \/ BackBegin \/ BackSet \/ BackSplit \/ BackJmp \/ BackSave \/ BackAnchor
    \/ BackBackref \/ BackProgressStart \/ BackProgressCheck \/ BackClear \/ BackMatch

RegexSpec == RegexInit /\ [][RegexNext]_rvars

-----------------------------------------------------------------------------
(* What the matchers promise. *)

\* The slots of a match in the meaning, as far as the call of that run keeps them.
SlotsOf(caps, n) ==
    [k \in 1..n |-> LET cap == caps[(k - 1) \div 2]
                    IN  IF cap = Nothing THEN None ELSE cap[1 + ((k - 1) % 2)]]

Truncated(all, n) == [i \in DOMAIN all |-> SlotsOf(all[i], n)]

Expected(n) ==
    LET all == MatchesFrom(R, Hay, 1)
    IN  Truncated(IF n = 0 /\ all # <<>> THEN <<Head(all)>> ELSE all, n)

\* Both matchers, with the prefilter and without, find the matches that the
\* pattern means, one after the other, each with the captures of the preferred
\* way: no literal, required character, anchor or length rule skips a match, no
\* thread is merged with one that goes on differently, no iteration loops on
\* the empty text, no capture survives a choice that failed.
AnswersAreMeaning ==
    control = "done" =>
        /\ answers[1] = Expected(IF P.backrefs THEN P.slots ELSE Width)
        /\ answers[2] = Expected(P.slots)

\* The groups of a match nest: every group lies inside the one it is placed
\* under, behind its siblings before it, though its capture may be of an
\* earlier iteration.  group_tree asserts it in debug builds and slices the
\* text by it in every build.
GroupsNest ==
    control = "done" =>
        \A slots \in Range(answers[2]) : \A p \in {0} \cup TookPart(slots) :
            \A i \in DOMAIN Children(slots, p) :
                LET Bounds(k) == Span(slots, Children(slots, p)[k])
                IN  /\ (IF i = 1 THEN Span(slots, p)[1] ELSE Bounds(i - 1)[2]) <= Bounds(i)[1]
                    /\ Bounds(i)[2] <= Span(slots, p)[2]
=============================================================================
