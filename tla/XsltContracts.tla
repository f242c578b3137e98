------------------------------ MODULE XsltContracts ------------------------------
(***************************************************************************)
(* From a stylesheet to the value of its transformation: lowering,         *)
(* compilers and interpreter together.  A model instantiates Programs with *)
(* what Translate makes of Sources.                                        *)
(***************************************************************************)
EXTENDS Interpreter, FunctionCompiler, XsltMeaning

CONSTANTS Sources,   \* stylesheets, as they are written
          Meanings   \* what they mean: Meaning of each of them, evaluated once

LOCAL L == INSTANCE XsltLowering

Meaning(templates) ==
    IF \A i \in DOMAIN templates : WellFormedTemplate(templates[i])
    THEN MeaningOfStylesheet(templates, FramesMax) ELSE Failed

\* A stylesheet with an error is refused, with no program.
Translate(templates) ==
    LET lowered == L!LowerStylesheet(templates)
    IN  IF lowered.refused THEN [refused |-> TRUE]
        ELSE CompileDeclarations([rules |-> lowered.rules, main |-> lowered.main])

Refused(i) == "refused" \in DOMAIN Programs[i]

InitXslt ==
    \/ /\ program \in {i \in DOMAIN Programs : ~ Refused(i)}
       /\ Init
    \/ /\ program \in {i \in DOMAIN Programs : Refused(i)}
       /\ stack = <<>> /\ build = <<>> /\ frames = <<>> /\ calls = <<>>
       /\ status = "refused"

SpecXslt == InitXslt /\ [][Next]_vars /\ WF_vars(Next)

(***************************************************************************)
(* A stylesheet is refused exactly if a variable, a context or a loop is   *)
(* not there where it is used, or if it uses one of the two things that    *)
(* are not supported.                                                      *)
(***************************************************************************)
RefusedIsIllFormed ==
    LET templates == Sources[program]
        wellFormed == \A i \in DOMAIN templates : WellFormedTemplate(templates[i])
    IN  status \in {"refused", "done", "error"} => (status = "refused" <=> ~ wellFormed)

(***************************************************************************)
(* A transformation that ends has the value that the stylesheet means, and *)
(* it ends with an error only if the stylesheet means one: on every item   *)
(* the rule is run that matches, has the mode and the highest priority and *)
(* comes last, whatever the order in which patterns ask their predicates;  *)
(* loops, parameters and variables come out as written.                    *)
(***************************************************************************)
ResultIsMeaning ==
    status \in {"done", "error"} =>
        LET meaning == Meanings[program]
        IN  IF status = "done" THEN Last(stack) = meaning ELSE meaning = Failed
===============================================================================
