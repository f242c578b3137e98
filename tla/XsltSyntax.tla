------------------------------- MODULE XsltSyntax -------------------------------
(***************************************************************************)
(* Stylesheets.  A stylesheet is a sequence of template rules              *)
(*   [pattern, tests, priority, modes, content]                            *)
(* tests are the predicates of the pattern as expressions, in their order, *)
(* priority is empty or one number, in halves, and a mode is a name,       *)
(* "unnamed" or "#all".  content is a sequence constructor: a sequence of  *)
(*   apply (select, mode)      sequence (from)      variable (name, from)  *)
(*   if (test, content)        choose (whens, otherwise)                   *)
(*   forEach (select, content) break (from)         next (params)          *)
(*   iterate (select, params, content, complete)                           *)
(* from is [select] or [content], a param [name, from], a when             *)
(* [test, content]; otherwise and complete are empty or hold one content   *)
(* and one from.                                                           *)
(*                                                                         *)
(* The instructions that construct nodes are left out: what xml_append     *)
(* does with the nodes that they make is the matter of Construction.  So   *)
(* are named templates, parameters of templates, sorting, declarations     *)
(* other than templates, and the mode #current, none of which the compiler *)
(* translates.                                                             *)
(***************************************************************************)
EXTENDS XPathSyntax

Path(root, steps) == [op |-> "paths", links |-> <<[how |-> "First", path |-> [root |-> root, steps |-> steps]]>>]
ChildStep(test) == [axis |-> "child", test |-> test, preds |-> <<>>]

ApplyTo(select, mode) == [op |-> "apply", select |-> select, mode |-> mode]

ApplyToChildren == ApplyTo(X("step", [axis |-> "child", test |-> "node()"], <<>>), "unnamed")

\* A template for the document and one for its elements, which come before the
\* declarations of the stylesheet; those for other nodes are left out.
DefaultTemplates ==
    LET For(test) == [pattern |-> Path("relative", <<ChildStep(test)>>), tests |-> <<>>, priority |-> <<>>,
                      modes |-> {"unnamed"}, content |-> <<ApplyToChildren>>]
    IN  <<For("document-node()"), For("element()")>>

\* The transformation starts by applying templates to the document.
MainContent == <<ApplyTo(X("slash", "", <<>>), "unnamed")>>
===============================================================================
