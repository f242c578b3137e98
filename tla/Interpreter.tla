------------------------------ MODULE Interpreter ------------------------------
(***************************************************************************)
(* The virtual machine that runs compiled XPath and XSLT: one value stack, *)
(* a stack of sequences under construction, a bounded stack of frames, and *)
(* the loop run_actual that executes instructions.  Library functions and  *)
(* the template dispatch are native code that calls functions of the       *)
(* program back by starting the loop again: such an activation waits in    *)
(* `calls` until the frame that it pushed returns, which the inner loop    *)
(* recognises by the base of that frame.                                   *)
(***************************************************************************)
EXTENDS Patterns

CONSTANTS
    Programs,      \* compiled programs, in a function
    FramesMax,     \* how many frames there can be
    ContextItem    \* the item the program is run against

ASSUME FramesMaxAssumption == FramesMax \in Nat \ {0}

ASSUME ContextItemAssumption == ContextItem \in Atoms

VARIABLES
    program,    \* which of the Programs runs
    stack,      \* values: functions, arguments, locals, operands
    build,      \* sequences under construction
    frames,     \* [fn, ip, base]
    calls,      \* native activations, the innermost last
    status      \* "running", "done" or "error"

vars == <<program, stack, build, frames, calls, status>>

StaticArity == [position |-> 0, error |-> 0, forEach |-> 2, root |-> 1]

-----------------------------------------------------------------------------
(* Reading the state. *)

Function(id) == Programs[program].functions[id]
Rules(mode)  == Programs[program].rules[mode]
Frame        == Last(frames)
Instruction  == Function(Frame.fn).code[Frame.ip]

\* The n-th value from the top, and the stack without its n topmost values.
Operand(n) == stack[Len(stack) - n + 1]
Popped(n)  == SubSeq(stack, 1, Len(stack) - n)

ArityOf(item) ==
    IF "static" \in DOMAIN item THEN StaticArity[item.static]
                                ELSE Function(item.fn).arity

\* The native code is between two calls of the loop, at the innermost level.
Native    == calls # <<>> /\ Last(calls).waiting = "nothing"
StartBase == IF calls = <<>> THEN 0 ELSE Last(calls).base

Executes(op) == status = "running" /\ ~ Native /\ Instruction.op = op
Runs(kind)   == status = "running" /\ Native /\ Last(calls).kind = kind

-----------------------------------------------------------------------------
(* Errors.  They pass through every native activation up to the host,      *)
(* except through match_predicate, for which an error is a mismatch: the   *)
(* matching goes on and leaves the rest of the machine as the error found  *)
(* it.                                                                     *)

\* How the item of an activation matches the rule that it tries, as far as
\* the predicates have answered, and the same with one more answer.
Match(a) == Verdict(Rules(a.mode)[a.rule].pattern, a.items[a.i], a.known)

Answered(a, holds) ==
    [a EXCEPT !.known = [q \in DOMAIN @ \cup {Match(a)} |-> IF q \in DOMAIN @ THEN @[q] ELSE holds],
              !.waiting = "nothing"]

\* The error of a step that leaves the stack s and the activations cs.
RaiseIn(cs, s) ==
    LET matching == {i \in DOMAIN cs : cs[i].waiting = "predicate"}
    IN  /\ stack' = s
        /\ IF matching = {}
           THEN status' = "error" /\ calls' = cs
           ELSE LET i == Max(matching)
                IN  /\ calls' = Append(SubSeq(cs, 1, i - 1), Answered(cs[i], FALSE))
                    /\ UNCHANGED status
        /\ UNCHANGED <<program, build>>

Raise(s) == RaiseIn(calls, s)

-----------------------------------------------------------------------------
(* Instructions.  The loop has read an instruction when it executes it, so *)
(* that an error, too, leaves the frame behind the instruction.            *)

Goto(ip) == frames' = [frames EXCEPT ![Len(frames)].ip = ip]
Advance  == Goto(Frame.ip + 1)

LeavesStack(s) ==
    /\ stack' = s
    /\ UNCHANGED <<program, build, calls, status>>

Push(v) == Advance /\ LeavesStack(Append(stack, v))

\* n operands give way to one value, or the instruction fails.
Gives(n, v) ==
    /\ Advance
    /\ IF v = Failed THEN Raise(Popped(n)) ELSE LeavesStack(Append(Popped(n), v))

PushConstant   == Executes("Const") /\ Push(Instruction.arg)
PushVariable   == Executes("Var") /\ Push(stack[Frame.base + Instruction.arg])

\* The function that runs is just below the base, with what it captured.
PushClosureVariable ==
    /\ Executes("ClosureVar")
    /\ Push(stack[Frame.base][1].vars[Instruction.arg])

SetVariableOfMain ==
    /\ Executes("Set")
    /\ Advance
    /\ LeavesStack([Popped(1) EXCEPT ![Instruction.arg] = Operand(1)])

SetVariable ==
    /\ Executes("Set")
    /\ Advance
    /\ LeavesStack([Popped(1) EXCEPT ![Frame.base + Instruction.arg] = Operand(1)])

\* The captured values are popped in the order of their names.
MakeClosure ==
    /\ Executes("Closure")
    /\ LET n == Len(Function(Instruction.arg).closed)
           captured == [i \in 1..n |-> Operand(i)]
       IN  Gives(n, <<[fn |-> Instruction.arg, vars |-> captured]>>)

\* fn:position captures the position, the other functions capture nothing.
MakeStaticClosure ==
    /\ Executes("StaticClosure")
    /\ LET n == IF Instruction.arg = "position" THEN 1 ELSE 0
       IN  Gives(n, <<[static |-> Instruction.arg,
                       vars |-> [i \in 1..n |-> Operand(i)]]>>)

Operate ==
    \E op \in Operators :
        Executes(op) /\ Gives(2, Apply(op, Operand(2), Operand(1)))

\* There is one unary instruction for each operator; plus only looks at the type.
OperateUnary ==
    \/ Executes("Minus") /\ Gives(1, Negated(Operand(1)))
    \/ /\ Executes("Plus")
       /\ Gives(1, IF Negated(Operand(1)) = Failed THEN Failed ELSE Operand(1))

TakeStep ==
    /\ Executes("Step")
    /\ Gives(1, IF OneNode(Operand(1))
                THEN ResolveStep(Instruction.arg.axis, Instruction.arg.test, Operand(1)[1].node)
                ELSE Failed)

SortNodes == Executes("Deduplicate") /\ Gives(1, Deduplicate(Operand(1)))

MeasureSequence == Executes("SequenceLen") /\ Gives(1, SequenceLen(Operand(1)))
GetItem   == Executes("SequenceGet") /\ Gives(2, SequenceGet(Operand(2), Operand(1)))
TestKind  == Executes("IsNumeric") /\ Gives(1, IsNumeric(Operand(1)))
EndLet    == Executes("LetDone") /\ Gives(2, Operand(1))
Duplicate == Executes("Dup") /\ Push(Operand(1))
Discard   == Executes("Pop") /\ Advance /\ LeavesStack(Popped(1))

Jump ==
    /\ Executes("Jump")
    /\ Goto(Frame.ip + 1 + Instruction.arg)
    /\ LeavesStack(stack)

Branch ==
    \E b \in BOOLEAN :
        /\ Executes(IF b THEN "JumpIfTrue" ELSE "JumpIfFalse")
        /\ LET test == EffectiveBoolean(Operand(1))
           IN  IF test = Failed
               THEN Advance /\ Raise(Popped(1))
               ELSE /\ Goto(Frame.ip + 1 + (IF test = b THEN Instruction.arg ELSE 0))
                    /\ LeavesStack(Popped(1))

Builds(b, s) ==
    /\ Advance
    /\ build' = b /\ stack' = s
    /\ UNCHANGED <<program, calls, status>>

BuildNew == Executes("BuildNew") /\ Builds(Append(build, <<>>), stack)

BuildPush ==
    /\ Executes("BuildPush")
    /\ Builds([build EXCEPT ![Len(build)] = @ \o Operand(1)], Popped(1))

BuildComplete ==
    /\ Executes("BuildComplete")
    /\ Builds(Front(build), Append(stack, Last(build)))

-----------------------------------------------------------------------------
(* Calls.  Below the arguments on the stack is the function item.          *)

NewFrame(id, s) ==
    [fn |-> id, ip |-> 1, base |-> Len(s) - Function(id).arity]

\* A call of a value that is no function, and one with the wrong number of
\* arguments, fails before anything is popped; so does one frame too many.
CallsFunction(kind) ==
    /\ Executes("Call")
    /\ LET callee == Operand(Instruction.arg + 1)
       IN  /\ OneFunction(callee)
           /\ kind \in DOMAIN callee[1]
           /\ ArityOf(callee[1]) = Instruction.arg

Callee == Operand(Instruction.arg + 1)[1]

RefuseCall ==
    /\ Executes("Call")
    /\ ~ CallsFunction("fn") /\ ~ CallsFunction("static")
    /\ Advance /\ Raise(stack)

CallInlineUnchecked ==
    /\ CallsFunction("fn")
    /\ LET caller == [frames EXCEPT ![Len(frames)].ip = @ + 1]
       IN  frames' = Append(caller, NewFrame(Callee.fn, stack))
    /\ UNCHANGED <<program, stack, build, calls, status>>

CallInline ==
    /\ CallsFunction("fn")
    /\ IF Len(frames) < FramesMax
       THEN LET caller == [frames EXCEPT ![Len(frames)].ip = @ + 1]
            IN  /\ frames' = Append(caller, NewFrame(Callee.fn, stack))
                /\ UNCHANGED <<program, stack, build, calls, status>>
       ELSE Advance /\ Raise(stack)

\* fn:position() is the captured position.
CallPosition ==
    /\ CallsFunction("static") /\ Callee.static = "position"
    /\ Gives(1, Callee.vars[1])

\* fn:error() fails with its item still on the stack.
CallError ==
    /\ CallsFunction("static") /\ Callee.static = "error"
    /\ Advance /\ Raise(stack)

CallRoot ==
    /\ CallsFunction("static") /\ Callee.static = "root"
    /\ IF RootOf(Operand(1)) = Failed THEN Advance /\ Raise(stack)
                                      ELSE Gives(2, RootOf(Operand(1)))

\* fn:for-each(seq, action): the arguments leave the stack, the item stays.
\* The action must be one function of one argument.
CallForEach ==
    /\ CallsFunction("static") /\ Callee.static = "forEach"
    /\ Advance
    /\ IF OneFunction(Operand(1)) /\ ArityOf(Operand(1)[1]) = 1
       THEN /\ stack' = Popped(2)
            /\ calls' = Append(calls,
                  [kind |-> "forEach", items |-> Operand(2), i |-> 1, done |-> <<>>,
                   action |-> Operand(1), mode |-> "", rule |-> 1, known |-> << >>,
                   waiting |-> "nothing", base |-> 0])
            /\ UNCHANGED <<program, build, status>>
       ELSE Raise(stack)

ApplyTemplates ==
    /\ Executes("ApplyTemplates")
    /\ Advance
    /\ stack' = Popped(1)
    /\ calls' = Append(calls,
          [kind |-> "apply", items |-> Operand(1), i |-> 1, done |-> <<>>,
           action |-> <<>>, mode |-> Instruction.arg, rule |-> 1, known |-> << >>,
           waiting |-> "nothing", base |-> 0])
    /\ UNCHANGED <<program, build, status>>

-----------------------------------------------------------------------------
(* Native code that calls back: call_function_with_arguments.              *)

Activation == Last(calls)
Item       == <<Activation.items[Activation.i]>>
More       == Activation.i <= Len(Activation.items)

WithActivation(a) == Append(Front(calls), a)

CallBackBaseFirst(what, function, args) ==
    LET s == stack \o <<function>> \o args
        frame == NewFrame(function[1].fn, s)
        called == WithActivation(
            [Activation EXCEPT !.waiting = what, !.base = Frame.base])
    IN  IF Len(frames) < FramesMax
        THEN /\ stack' = s
             /\ frames' = Append(frames, frame)
             /\ calls' = called
             /\ UNCHANGED <<program, build, status>>
        ELSE RaiseIn(called, s) /\ UNCHANGED frames

\* It pushes the function and the arguments, and runs the loop on the new
\* frame; there may be no room for one.
CallBack(what, function, args) ==
    LET s == stack \o <<function>> \o args
        frame == NewFrame(function[1].fn, s)
        called == WithActivation(
            [Activation EXCEPT !.waiting = what, !.base = frame.base])
    IN  IF Len(frames) < FramesMax
        THEN /\ stack' = s
             /\ frames' = Append(frames, frame)
             /\ calls' = called
             /\ UNCHANGED <<program, build, status>>
        ELSE RaiseIn(called, s) /\ UNCHANGED frames

Closed(id) == <<[fn |-> id, vars |-> <<>>]>>

NextItem(a, v) ==
    [a EXCEPT !.done = @ \o v, !.i = @ + 1, !.rule = 1, !.known = << >>,
              !.waiting = "nothing"]

\* for_each calls the action with one item after the other.
ForEachItem ==
    /\ Runs("forEach") /\ More /\ "fn" \in DOMAIN Activation.action[1]
    /\ CallBack("body", Activation.action, <<Item>>)

\* fn:root, the one library function of one argument, returns at once.  An
\* item without a root stays on the stack, on the function.
ForEachRoot ==
    /\ Runs("forEach") /\ More /\ "static" \in DOMAIN Activation.action[1]
    /\ IF RootOf(Item) = Failed
       THEN Raise(stack \o <<Activation.action, Item>>)
       ELSE /\ calls' = WithActivation(NextItem(Activation, RootOf(Item)))
            /\ UNCHANGED <<program, stack, build, status>>
    /\ UNCHANGED frames

\* Variant for the checks: the function stays.
ForEachDoneKeepingFunction ==
    /\ Runs("forEach") /\ ~ More
    /\ stack' = Append(stack, Activation.done)
    /\ calls' = Front(calls)
    /\ UNCHANGED <<program, build, frames, status>>

\* call_static then pops the function and pushes what it returned.
ForEachDone ==
    /\ Runs("forEach") /\ ~ More
    /\ stack' = Append(Popped(1), Activation.done)
    /\ calls' = Front(calls)
    /\ UNCHANGED <<program, build, frames, status>>

\* lookup tries the rules of the mode in order.  The predicate that the
\* pattern asks for is a call-back.
Rule     == Rules(Activation.mode)[Activation.rule]
SomeRule == Runs("apply") /\ More /\ Activation.rule <= Len(Rules(Activation.mode))

TryPredicate ==
    /\ SomeRule
    /\ \E pred \in DOMAIN Rule.preds,
          item \in ToSet(Item) \cup {NodeItem(n) : n \in Nodes} :
          /\ Match(Activation) = Question(pred, item)
          /\ CallBack("predicate", Closed(Rule.preds[pred]),
                      << <<item>>, <<Integer(ChildIndex(item))>>,
                         <<Integer(Cardinality(Siblings(item)))>> >>)

SkipRule ==
    /\ SomeRule /\ Match(Activation) = No
    /\ calls' = WithActivation([Activation EXCEPT !.rule = @ + 1, !.known = << >>])
    /\ UNCHANGED <<program, stack, build, frames, status>>

\* The first rule that matches is run on the item, its position among the
\* selected items and their number.
RunRule ==
    /\ SomeRule /\ Match(Activation) = Yes
    /\ CallBack("body", Closed(Rule.body),
                <<Item, <<Integer(Activation.i)>>, <<Integer(Len(Activation.items))>> >>)

NoRuleAgain ==
    /\ Runs("apply") /\ More /\ Activation.rule > Len(Rules(Activation.mode))
    /\ calls' = WithActivation([Activation EXCEPT !.rule = 1])
    /\ UNCHANGED <<program, stack, build, frames, status>>

\* An item that no rule matches contributes nothing.
NoRule ==
    /\ Runs("apply") /\ More /\ Activation.rule > Len(Rules(Activation.mode))
    /\ calls' = WithActivation(NextItem(Activation, <<>>))
    /\ UNCHANGED <<program, stack, build, frames, status>>

ApplyDone ==
    /\ Runs("apply") /\ ~ More
    /\ stack' = Append(stack, Activation.done)
    /\ calls' = Front(calls)
    /\ UNCHANGED <<program, build, frames, status>>

\* What the native code does with the value of the call it waited for; a
\* predicate without an effective boolean value does not match.
Resume(a, v) ==
    IF a.waiting = "body" THEN NextItem(a, v)
                          ELSE Answered(a, EffectiveBoolean(v) = TRUE)

-----------------------------------------------------------------------------
(* Return cuts the stack down to the base, takes the function below it     *)
(* away (the main function has none), and pushes the value.  If the frame  *)
(* is the one this run of the loop was started on, the loop ends.          *)

Return ==
    /\ Executes("Return")
    /\ LET below == SubSeq(stack, 1, Frame.base)
           rest  == IF below = <<>> THEN <<>> ELSE Front(below)
           ends  == Frame.base = StartBase
       IN  /\ frames' = Front(frames)
           /\ stack' = IF ends /\ calls # <<>> THEN rest ELSE Append(rest, Operand(1))
           /\ calls' = IF ends /\ calls # <<>>
                       THEN WithActivation(Resume(Activation, Operand(1)))
                       ELSE calls
           /\ status' = IF ends /\ calls = <<>> THEN "done" ELSE status
           /\ UNCHANGED <<program, build>>

-----------------------------------------------------------------------------

\* The main function takes the context item, its position and the size from
\* the bottom of the stack.
Init ==
    /\ program \in DOMAIN Programs
    /\ stack = << <<ContextItem>>, <<Integer(1)>>, <<Integer(1)>> >>
    /\ build = <<>>
    /\ frames = <<[fn |-> Programs[program].main, ip |-> 1, base |-> 0]>>
    /\ calls = <<>>
    /\ status = "running"

Compute ==
    \/ PushConstant \/ PushVariable \/ PushClosureVariable \/ SetVariable
    \/ MakeClosure \/ MakeStaticClosure
    \/ Operate \/ OperateUnary \/ TakeStep \/ SortNodes \/ MeasureSequence \/ GetItem \/ TestKind
    \/ EndLet \/ Duplicate \/ Discard
    \/ Jump \/ Branch
    \/ BuildNew \/ BuildPush \/ BuildComplete

Invoke ==
    \/ RefuseCall \/ CallInline \/ CallPosition \/ CallError \/ CallRoot \/ CallForEach
    \/ ApplyTemplates \/ Return

Host ==
    \/ ForEachItem \/ ForEachRoot \/ ForEachDone
    \/ TryPredicate \/ SkipRule \/ RunRule \/ NoRule \/ ApplyDone

Next == Compute \/ Invoke \/ Host

\* Nothing else runs: the loop goes on as long as there is an instruction.
Spec == Init /\ [][Next]_vars /\ WF_vars(Next)

-----------------------------------------------------------------------------
(* Balanced code.  The machine checks neither that an operand is there nor *)
(* which frame it belongs to, and Return forgives what a function leaves   *)
(* behind, so that all rests on the code: whatever way an instruction is   *)
(* reached, as many values are above the base of the frame, and as many    *)
(* sequences of the function are under construction.                       *)

\* How many values the instruction i of the program p takes and leaves.
Consumes(p, i) ==
    CASE i.op \in {"Const", "Var", "ClosureVar", "Jump", "BuildNew", "BuildComplete"} -> 0
      [] i.op \in Operators \cup {"SequenceGet", "LetDone"} -> 2
      [] i.op = "Call"          -> i.arg + 1
      [] i.op = "Closure"       -> Len(p.functions[i.arg].closed)
      [] i.op = "StaticClosure" -> IF i.arg = "position" THEN 1 ELSE 0
      [] OTHER                  -> 1

Produces(i) ==
    CASE i.op \in {"Set", "Pop", "Jump", "JumpIfTrue", "JumpIfFalse", "BuildNew", "BuildPush"} -> 0
      [] i.op = "Dup" -> 2
      [] OTHER        -> 1

\* The depth after the instruction, where it is d before.
After(p, i, d) ==
    [values |-> d.values - Consumes(p, i) + Produces(i),
     builds |-> CASE i.op = "BuildNew" -> d.builds + 1
                  [] i.op = "BuildComplete" -> d.builds - 1
                  [] OTHER -> d.builds]

Successors(code, ip) ==
    CASE code[ip].op = "Return" -> {}
      [] code[ip].op = "Jump"   -> {ip + 1 + code[ip].arg}
      [] code[ip].op \in {"JumpIfTrue", "JumpIfFalse"} -> {ip + 1, ip + 1 + code[ip].arg}
      [] OTHER -> {ip + 1}

Depth == [values : Nat, builds : Nat]
DepthAtStart(f) == [values |-> f.arity, builds |-> 0]

\* The depth before each instruction, by the first way it is reached.
Depths(p, f) ==
    LET Reached(ds, ip) ==
            LET from == {j \in 1..(ip - 1) : ip \in Successors(f.code, j)}
            IN  IF from = {} THEN DepthAtStart(f)
                ELSE After(p, f.code[Min(from)], ds[Min(from)])
    IN  FoldLeft(LAMBDA ds, ip : Append(ds, Reached(ds, ip)), <<>>,
                 [ip \in 1..Len(f.code) |-> ip])

\* The operand of the instruction i of f, at depth d, means something.
ValidOperand(p, f, i, d) ==
    CASE i.op = "Const"         -> i.arg \in Seq(Atoms)
      [] i.op = "Var"           -> i.arg \in 1..d.values
      [] i.op = "Set"           -> i.arg \in 1..(d.values - 1)
      [] i.op = "ClosureVar"    -> i.arg \in DOMAIN f.closed
      [] i.op = "Closure"       -> i.arg \in DOMAIN p.functions
      [] i.op = "StaticClosure" -> i.arg \in DOMAIN StaticArity
      [] i.op = "ApplyTemplates" -> i.arg \in DOMAIN p.rules
      [] i.op = "Step"          -> i.arg.axis \in AllAxes
      [] i.op = "Call"          -> i.arg \in Nat
      [] i.op \in {"Jump", "JumpIfTrue", "JumpIfFalse"} -> i.arg \in Int
      [] OTHER -> TRUE

\* No operand is an argument of the function, or below.
ValidInstruction(p, f, ds, ip) ==
    LET i == f.code[ip]
    IN  /\ ds[ip] \in Depth
        /\ ValidOperand(p, f, i, ds[ip])
        /\ f.arity + Consumes(p, i) <= ds[ip].values
        /\ i.op \in {"BuildPush", "BuildComplete"} => ds[ip].builds > 0
        /\ i.op = "Return" => ds[ip] = [values |-> f.arity + 1, builds |-> 0]
        /\ \A next \in Successors(f.code, ip) :
              next \in DOMAIN f.code /\ ds[next] = After(p, i, ds[ip])

IsSequence(s) == Len(s) \in Nat /\ DOMAIN s = 1..Len(s)

Balanced(p, f) ==
    LET ds == Depths(p, f)
    IN  /\ IsSequence(f.code) /\ IsSequence(f.closed) /\ f.arity \in Nat
        /\ 1 \in DOMAIN f.code /\ ds[1] = DepthAtStart(f)
        /\ \A ip \in DOMAIN f.code : ValidInstruction(p, f, ds, ip)

\* The host calls the function with an item, its position and their number.
CalledByHost(p, id) ==
    /\ id \in DOMAIN p.functions
    /\ p.functions[id].arity = 3 /\ p.functions[id].closed = <<>>

Verified(p) ==
    /\ \A id \in DOMAIN p.functions : Balanced(p, p.functions[id])
    /\ CalledByHost(p, p.main)
    /\ \A mode \in DOMAIN p.rules :
          /\ IsSequence(p.rules[mode])
          /\ \A i \in DOMAIN p.rules[mode] :
                LET rule == p.rules[mode][i]
                IN  /\ CalledByHost(p, rule.body)
                    /\ \A pred \in DOMAIN rule.preds : CalledByHost(p, rule.preds[pred])

-----------------------------------------------------------------------------
(* Properties. *)

Shape(item) == IsInt(item) \/ IsBool(item) \/ IsNode(item) \/ {"vars"} \subseteq DOMAIN item

(***************************************************************************)
(* The machine is well formed: values are sequences of items, there are at *)
(* most FramesMax frames, and each is at an instruction of its function    *)
(* and has its arguments on the stack.                                     *)
(***************************************************************************)
TypeOK ==
    /\ program \in DOMAIN Programs
    /\ status \in {"running", "done", "error"}
    /\ \A i \in DOMAIN stack : \A j \in DOMAIN stack[i] : Shape(stack[i][j])
    /\ \A i \in DOMAIN build : \A j \in DOMAIN build[i] : Shape(build[i][j])
    /\ Len(frames) <= FramesMax
    /\ \A f \in ToSet(frames) :
          /\ f.fn \in DOMAIN Programs[program].functions
          /\ f.ip \in DOMAIN Function(f.fn).code
          /\ f.base + Function(f.fn).arity <= Len(stack)
    /\ \A a \in ToSet(calls) :
          /\ a.kind \in {"forEach", "apply"}
          /\ a.waiting \in {"nothing", "body", "predicate"}
          /\ a.waiting # "nothing" => a.base <= Len(stack)

(***************************************************************************)
(* A function leaves exactly its result above its arguments: Return would  *)
(* hide a value too many by cutting the stack, but the locals in between   *)
(* would have been read from the wrong slots.                              *)
(***************************************************************************)
BalancedReturns ==
    Executes("Return") => Len(stack) = Frame.base + Function(Frame.fn).arity + 1

(***************************************************************************)
(* The loop knows that its run is over by the base of the frame only, so   *)
(* that bases must tell the frames apart: no two frames have the same      *)
(* base, and each waiting activation has a frame of its own, which is      *)
(* above the frame of the main function.                                   *)
(***************************************************************************)
BasesIdentifyRuns ==
    status = "running" =>
        /\ \A i, j \in DOMAIN frames : i < j => frames[i].base < frames[j].base
        /\ \A i \in DOMAIN calls : calls[i].waiting # "nothing" =>
              \E j \in 2..Len(frames) : frames[j].base = calls[i].base
        /\ \A i, j \in DOMAIN calls :
              i < j /\ calls[j].waiting # "nothing" => calls[i].base < calls[j].base

(***************************************************************************)
(* What run_value asserts when the loop ends, and that nothing else is     *)
(* left behind: no sequence under construction, frame or activation.       *)
(***************************************************************************)
CleanEnd ==
    status = "done" =>
        Len(stack) = 1 /\ build = <<>> /\ frames = <<>> /\ calls = <<>>

(***************************************************************************)
(* Whatever way a function or a loop is left, early, late or through a     *)
(* call-back, nothing of it stays on a stack and nothing is missing.       *)
(***************************************************************************)
StacksBalanced == BalancedReturns /\ CleanEnd

(***************************************************************************)
(* What is below the function that runs belongs to its callers: no         *)
(* instruction, call-back or return changes or removes it.                 *)
(***************************************************************************)
CallersUntouched ==
    [][\A i \in 1..(Frame.base - 1) : i \in DOMAIN stack' /\ stack'[i] = stack[i]]_vars

(***************************************************************************)
(* Every program ends: loops count up to the length of a sequence, and     *)
(* recursion runs into FramesMax.                                          *)
(***************************************************************************)
Termination == <>(status # "running")
===============================================================================
