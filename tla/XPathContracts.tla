----------------------------- MODULE XPathContracts -----------------------------
(***************************************************************************)
(* From the text of an expression to its value: parser, renaming,          *)
(* lowering, compiler and interpreter together.  A model instantiates      *)
(* Programs with what Translate makes of Sources.                          *)
(***************************************************************************)
EXTENDS Interpreter, FunctionCompiler, XPathMeaning

CONSTANT Sources    \* expressions, as they are written

LOCAL L == INSTANCE Lowering

\* An expression with an error in its names is refused, with no program.
Translate(e) ==
    LET lowered == L!LowerXPath(L!UniqueNames(Parse(e)))
    IN  IF lowered.refused THEN [refused |-> TRUE]
        ELSE CompileDeclarations([rules |-> <<>>, main |-> lowered.main])

Refused(i) == "refused" \in DOMAIN Programs[i]

\* The host hands an expression over to the machine, or reports the error.
InitXPath ==
    \/ /\ program \in {i \in DOMAIN Programs : ~ Refused(i)}
       /\ Init
    \/ /\ program \in {i \in DOMAIN Programs : Refused(i)}
       /\ stack = <<>> /\ build = <<>> /\ frames = <<>> /\ calls = <<>>
       /\ status = "refused"

SpecXPath == InitXPath /\ [][Next]_vars /\ WF_vars(Next)

(***************************************************************************)
(* An expression is refused exactly if one of its names is not bound where *)
(* it stands, or it asks for a context where there is none.                *)
(***************************************************************************)
RefusedIsIllScoped ==
    frames = <<>> \/ Len(stack) = 3 =>
        ((status = "refused") <=> ~ WellScoped(Sources[program], {}, TRUE))

\* The machine stopped at a predicate whose value is several items, the first
\* of them a node.  XPath takes it as true; the code looks for a number first,
\* and more than one item is an error to it.
StoppedAtNodes ==
    /\ status = "error"
    /\ Frame.ip > 1 /\ Function(Frame.fn).code[Frame.ip - 1].op = "IsNumeric"
    /\ Len(Last(stack)) > 1 /\ IsNode(Last(stack)[1])

(***************************************************************************)
(* An expression that ends has the value that it means, and it ends with   *)
(* an error only if it means one or a predicate has several nodes for its  *)
(* value: shadowed names, captured variables and contexts, placeholders,   *)
(* and the operands that are evaluated late or never, all come out as      *)
(* written.                                                                *)
(***************************************************************************)
ResultIsMeaning ==
    status \in {"done", "error"} =>
        LET meaning == MeaningOfXPath(Sources[program], ContextItem)
        IN  IF status = "done" THEN Last(stack) = meaning
            ELSE meaning = Failed \/ StoppedAtNodes
===============================================================================
