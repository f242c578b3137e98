# A TLA+ model of Xee

[Xee](../src/README.md) is an XPath 3.1 and XSLT 3.0 engine in Rust. An XPath
expression or a stylesheet is parsed to an AST, translated to an intermediate
representation (IR) of let-bound expressions, compiled to bytecode and run by a
stack machine; documents live in the arena of its own XML library, `xot`;
regular expressions are matched by the two engines of `xee-regex`.

This directory holds TLA+ modules for the parts of Xee whose correctness is a
matter of *state* or of *several algorithms that must agree*, with the TLC
configurations that check them and proofs for TLAPS. `PROJECT.json` lists
components, runs, the source lines behind every definition, hazards and theorems.

## The system

| Part | State it keeps | Operations | What makes it correct |
|---|---|---|---|
| `xot` tree (`xot/src/manipulation.rs`, `access.rs`, `nodemap/`) | one arena of nodes for all trees; the text consolidation switch | create, append, prepend, insert, detach, remove, wrap, unwrap, replace, clone, set text, attribute and namespace maps | a forest; namespaces before attributes before children; unique names; no two adjacent texts; no text lost; no use of a freed node |
| `xot` parser (`parse.rs`) | open elements and their declarations, id map | `parse`, `parse_fragment`, `xml_id_node` | names are resolved where they stand; the id map names the elements that were read |
| `xot` serializers and namespaces (`output/`, `nameaccess.rs`) | stacks of namespaces, of `xml:space` | one pass over the tree; create missing prefixes, deduplicate, clone with prefixes | push and pop agree; what is written is read back with the same names |
| XPath front end (`xee-xpath-ast`, `xee-xpath-compiler`) | names in scope, contexts, numbers of new names | grammar, renaming of variables, AST to IR | what is refused has an unbound name or no context; names and contexts are those of the scopes |
| reading of stylesheets (`xee-xslt-ast`) | stacks of `xml:space` and of attribute contexts; static variables | strip whitespace, evaluate `static` and `use-when`, parse elements and attributes | the text that counts is kept; what is excluded is gone; the stylesheets of the grammar are accepted, and nothing is read that was not written |
| XSLT front end (`xee-xslt-compiler`) | names in scope, contexts | stylesheet to IR: templates, pattern predicates, instructions | as for XPath; break and next-iteration belong to their loop |
| IR to bytecode (`xee-ir/src/function_compiler.rs`, `builder.rs`, `scope.rs`, `declaration_compiler.rs`) | code of the open function, names by slot, captured names, rules by mode | one method per IR expression; registration of rules | what runs computes what the IR means; rules are tried in the order of priority |
| interpreter (`xee-interpreter/src/interpreter/`) | value stack, build stack, at most `FRAMES_MAX` frames | one arm per instruction; library functions that call back | frames and stack agree; nested runs end where they began; nothing is left behind |
| patterns (`xee-interpreter/src/pattern/`) | none; predicates are runs of the interpreter | match a node against the paths of a rule, backwards | a node matches if a path leads to it |
| construction of XML (`interpret.rs`, `xml_append`) | open elements on the value stack, the arena | open, append a value: move, copy or merge its items | an element gets what the value says; source documents stay as they are |
| document collection and order (`xee-interpreter/src/xml/`) | documents by handle and URI; a cache of positions | add, get, `cleanup`, compare | positions are the order of the tree |
| regular expressions (`xee-regex`) | threads or choices of a search; budget of a call | compile, prefilter, PikeVM, backtracker, groups of a match | the engines agree with each other and with what a pattern means; bounds hold |
| JSON (`xee-json`) | container stack | tokenizer, writer | what is written is read back |
| test runner, CLI, REPL | filters, outcomes | | |

How they interact: the XPath and XSLT front ends hand IR to the compiler, the
compiler hands a `Program` to the interpreter, which reads and builds trees in the
arena and asks the annotations for document order. Nothing in the engine runs
concurrently; what makes it hard are *call-backs* (an instruction calls a
library function, or the template dispatch, which runs the interpreter again in
the middle of that instruction), *handles* into the arena that outlive the node
(a merge of two text nodes frees one of them), *caches* that are filled on demand
while what they describe goes on changing, *partial failure* (an operation
that has detached a node and then finds that it cannot attach it; an error that
is caught by one party only), and *agreement* between two bookkeepings of the
same thing (names in the source, in the IR and on the run-time stack; nodes and
map entries; two regular expression engines). There is no persistence, no
messaging and no timeout.

## Modules

### Trees and documents

* `IndexTree` — the `indextree` arena as `xot` uses it (external code): parent
  links, lists of children, phases `fresh`, `live`, `removed`; the checked moves,
  which move or refuse, and the removals. Calls whose effect `indextree` does not
  define (a reference below the node that is inserted beside it; several siblings
  without a parent) have the outcome `"undefined"`.
* `XotTree` — every operation of `Xot` that changes the tree, as an operator
  from a tree to an outcome `[tree, res]` with `res` one of `ok`, `err`,
  `panic`, `undefined`, and as one action each. Nothing in between is left out:
  a move is the structure check, the consolidation around the old place, the
  consolidation at the new one and the move, in the code's order, and the code
  goes on with nodes that an earlier step has freed just as the operators do.
  A text is a sequence of *pieces*, one for each text node created, so that a
  lost, doubled or reordered piece is visible. Names of attributes and prefixes
  are given by the constant `NameOf`.
* `XotContracts` — what the calls promise in terms of the content of elements
  (children with adjacent text joined), and the invariants.
* `XotContent` — the abstract specification: nodes have a content, a sequence of
  pieces of text and nodes; text nodes, consolidation and handles of texts do not
  exist. `XotContracts!ImplementsContent` is `XotContent!Spec` under the mapping
  that replaces every text node by its pieces.
* `DocumentOrder` — the annotations: a node is numbered when its order is first
  asked for, by a walk from the nearest numbered node before it, and the number
  stays.
* `Construction` — `xml_append`, shallow and deep copies and `clone_node`, as
  operators over `XotTree`'s. The outcome is `"undefined"` where the supply of
  handles is used up, which a real arena never is.
* `Documents` — composes the three: the document collection and a program that
  navigates, asks for orders and builds elements, which nest. A value is *careful*
  (`Careful`) when it does not mention twice a text that has no parent: the first
  mention may merge that text away, and the second is then a freed handle, at which
  the interpreter panics. `DocumentContracts` has the properties.
* `Namespaces` — the declarations of a tree of elements: what is in scope walking
  up (`namespace_traverse`), what the serializer keeps walking down
  (`FullnameInfo`), and the calls that change declarations. The tree is simpler
  than `XotTree`'s on purpose: elements in document order, each with its
  declarations and attributes.
* `Serialization` — composes the two ends of a text: a program changes the tree,
  the XML serializer walks over it with a stack that has an entry only for
  elements that declare something, and the parser reads the tags with a stack of
  all open elements. `NamespaceContracts` has the properties. The guards
  `CarefulMissing`, `CarefulDeduplicate` and `CarefulClone` keep out what is
  listed under *What the code does otherwise*.
* `XotTree_proofs`, `XotOrder_proofs`, `XotTexts_proofs`, `XotContents_proofs`,
  `XotContracts_proofs`, `DocumentOrder_proofs`, `Documents_proofs` — proofs.

`AnyCall = FALSE` restricts the calls to *careful callers*: the documented use
(no insertion beside an attribute, no merge of a text with itself or with the
reference that the caller names, no replacement by a neighbour; the guards
`CarefulBeside`, `CarefulUnder`, `CarefulReplace` are in `XotTree`).
`AnyCall = TRUE` is any call with live nodes.

### Programs

* `Values` — sequences of integers, booleans, nodes and function items
  with the operators that the instructions need; a document and the axes over
  it. An error of any code is `Failed`.
* `Interpreter` — `Interpreter` and `State`: one action per instruction, and
  the native code between call-backs as actions of its own. A native activation
  (`for_each`, `apply_templates_sequence` with the look-up of rules) is an entry
  of `calls`; while it waits it holds the base that the inner `run_actual` was
  started on, which is all the loop has to know where to stop. An error unwinds
  as the `?` operator does: through every activation to the host, except that
  `match_predicate` catches it, with frames, operands and build stack as they are.
  `for_each` with `fn:root` as its action answers without a frame (`ForEachRoot`);
  with a function of the program it pushes one (`ForEachItem`). `Verified` is the
  bookkeeping of the compiler read off its result: whatever way an instruction is
  reached, as many operands are above the base and as many sequences are under
  construction, and no instruction reaches below. `Interpreter_proofs` has the proofs.
* `Patterns` — the pattern matcher. A predicate is a call-back into the program,
  so matching is a function of the answers known so far: it yields an answer or the
  next question, which the interpreter runs before it matches on.
* `FunctionCompiler` — IR to instructions, and the declarations of a stylesheet to
  functions and the rules of every mode. Jumps count instructions instead of bytes, slots count from one.
* `XPathSyntax`, `Lowering` — XPath expressions as the grammar delivers them, with
  the rewriting of placeholders and arrows and the walk that makes variable names
  unique; the translation to IR bindings.
* `XsltSyntax`, `XsltLowering` — stylesheets: templates with patterns, predicates,
  modes, priorities; the instructions that select, bind, branch and loop.
* `Meaning`, `XPathMeaning`, `XsltMeaning` — reference definitions, by recursion
  on the IR, on XPath expressions and on stylesheets: environments instead of
  slots, scopes instead of unique names, paths walked downwards from the top
  instead of backwards, no jumps and no frames. How deep calls may nest is the one
  machine limit they know. They are written from the languages, not from the
  translators; two points in which `XsltMeaning` follows the code on purpose are
  named in its header.
* `MCExpressions`, `XPathContracts`, `XsltContracts` — the interpreter on
  what the compiler makes of IR, of XPath expressions, of stylesheets: the value
  must be the meaning, and only ill-formed sources are refused.
* `MCExpressions`, `MCXPath`, `MCStylesheets` also list the sources.

The compilers, the front ends and the meanings use RECURSIVE operators; they are
used by TLC's runs only. `Values` and `Interpreter` are free of them.

### Regular expressions

* `Regex` — the parsed tree, its compilation to instructions, and what the
  prefilter reads off it (minimal length, required characters, anchors, literal
  prefix).
* `RegexMatchers` — the search loop with the prefilter, the PikeVM (one thread
  per instruction and position, in priority order) and the backtracker (choices
  and undo records), step by step; the tree of groups.
* `RegexMeaning` — what a pattern matches: the first of all ways to match, in the
  order of preference. `RegexMatchers` ends with the comparison.

### Reading of stylesheets

* `XsltGrammar` — the elements of XSLT, as data: the attributes that each may have
  with the kinds of their values, and its content as a term over the combinators
  (`instruction.rs`, `ast_core.rs`).
* `XsltParsing` — the combinators (sequence, choice, repetition, with the
  backtracking that each has), the attributes with the context that they are read
  in (namespaces, `expand-text`, defaults, extension namespaces), value templates,
  and the parser of a stylesheet, an instruction and a literal element.
* `StaticEvaluation` — the machine around them: stripping of whitespace and
  comments, the children of the stylesheet evaluated one by one with the static
  variables known so far, removal of what `use-when` excludes, parsing of what is
  left.
* `ReadingContracts` — what reading promises, stated over whole trees: which text
  counts, which elements are used, which trees the grammar generates, what is read
  from each. `MCReading` has the families of stylesheets.

### Conventions

Names in `Compile...`, `Lower...` and in the actions follow the methods and
instructions of the source. Definitions whose names end in a variant
(`AbsorbKeeps`, `CompileJoinedUnnamed`, `RulesOfAllLast`, ...) stand just before
the definition they vary and are not part of the model: they are plausible slips,
each of which makes a run fail.

## Runs

| Run | Shows | Bounds |
|---|---|---|
| `xot_texts` | careful callers keep texts merged, hold every piece of text once, lose none but by remove and replace, and never touch a freed node; append, prepend, insert, detach, remove, unwrap, wrap, replace change the content as documented; a refused call leaves everything in place; all of it implements the tree without text nodes | a document, two elements, three texts: one text moved from between two others |
| `xot_maps` | attribute and namespace entries and nodes, consolidation switched at will: always a forest, removed handles stay removed, group order, unique names, map contracts | two elements, three attributes of which two share a name, one namespace |
| `documents` | orders are fixed and those of the trees; documents stay as added through construction and `cleanup`; an element gets what its value says; no panic | two documents, two elements, two texts, one attribute; five handles and two document ids given out, one URI, careful values of two items, two elements open at once |
| `namespaces` | writing is refused exactly if a name has no prefix in scope; what is written is read back, ids included; both stacks follow the tree; the calls for prefixes leave what could be written writable, and a clone has the prefixes that the whole document would have | 490 trees of three elements, every combination of 5 × 7 × 7 kinds of declarations and attributes in a chain or side by side; two calls; written from every node |
| `expressions` | 22 IR constructs around each other and 7 leaves: machine value = meaning; each function leaves exactly its result; callers' slots untouched; clean end | 3388 programs; sequences of two items; three frames, so that inner functions overflow |
| `xpath` | 8649 expressions, every construct around every other, from the AST to the value: refused exactly if a name or the context is missing, else the value is the meaning, or a predicate has several nodes | every binder binds `x` or `y`, so that nearly every expression shadows a name or misses one; the context is a node, an integer or absent |
| `templates` | 1552 stylesheets: the rule that runs is the one that should; loops, variables, parameters come out as written; only ill-formed ones are refused; nested runs end at their own frame; every transformation ends | 14 × 14 pairs of patterns over modes and priorities; 15 × 15 instructions around 6 leaves; a document of seven nodes; nine frames |
| `regex` | PikeVM with prefilter and backtracker find the matches and groups that the pattern means; groups nest | up to 1600 repeated groups of two parts with groups and back-references on two texts of three and two characters; 32 patterns of lines, without and with flag `m`, on five texts; literals of three characters, so that the limit cuts |
| `reading` | the text that counts is kept and no other; what `use-when` excludes is gone, where it is looked at; exactly the stylesheets of the grammar are accepted; attributes, templates and inherited settings are read as they were written | about 11 000 stylesheets in six families, each around one part of the reader: `xml:space` on three nested elements; static variables, parameters and `use-when` in every order; every element with every content of up to three children; every attribute with good and bad values; value templates of up to four characters; settings inherited, overridden and undone |
| `claim_append` | appending the last text child loses it | one element, one text |
| `claim_second_value` | the second value of `xsl:next-iteration` reads the first one's slot | one stylesheet |
| `claim_failing_predicate` | an error in a pattern predicate replaces the result of `apply-templates` | one stylesheet |

The `xot` runs use symmetry sets for nodes of one kind where no property
distinguishes them (safety only). Two nested constructs are enough for the
compiler because every method touches the scope and the stack only through its
immediate operands: a method that leaves the two out of step is seen by the
construct around it, and a third level brings no new interface. The leaves
contain a local, a computed operand, a captured context value, a failing call, a
good call and a call of the wrong arity. Of the stylesheets about 650 are
refused and 220 fail, so that both sides of the comparison with the meaning are used.

The program, regex and reading runs say `CHECK_DEADLOCK FALSE` because a program, a
search or a stylesheet ends; that a program does not get stuck before is `Termination`. The `xot`
and document runs say so because the finite supply of nodes can be used up, the
run of namespaces because reading ends.

**Fairness.** `xot` and the document collection are libraries: nothing has to
happen, their specifications have no fairness and no liveness is stated. The
interpreter is a loop in one thread that goes on as long as there is an
instruction: `WF_vars(Next)`.

**Properties.** One type invariant for the machine, and beyond that:

* trees: `NoAdjacentTexts`, `TextHeldOnce`, `NoTextLost`, `NoPanic`,
  `EntriesInOrder`, `RefusedMovesKeepPlaces`, `ForestOK`, `RemovedForGood`, the contracts, and
  the refinement `ImplementsContent`;
* documents: `OrderAgrees` (the order of any two annotated nodes is that of the
  tree), `OrdersKept`, `CollectionAgrees` (handles, URIs and roots
  through `cleanup`), `AppendsValue`, `SourcesUntouched`;
* namespaces: `RefusedIsUnbound`, `WrittenIsReadBack`, `ScopesFollowTree`,
  `EditsKeepNames`;
* programs: `ResultIsMeaning` in three instances, `RefusedIsIllScoped`,
  `RefusedIsIllFormed`, `StacksBalanced` (a return hides a surplus by cutting the
  stack, so the surplus is checked before it; and what `run_value` asserts of the
  stacks at the end), `BasesIdentifyRuns`, `CallersUntouched`, `Termination`;
* reading: `StrippedAsRequired`, `ExcludedAreGone`, `RefusedIsUngrammatical`,
  `ReadAsWritten`;
* regular expressions: `AnswersAreMeaning`, `GroupsNest`.

## What the code does otherwise

Three runs show a violation of what the documentation or the standard quoted in
the code says. The following came up while modelling; the passing runs keep them
out by named guards or by the choice of sources, so that what they show is about
everything else. Those that a model could run into by a small change are hazards
in `PROJECT.json`.

*Trees.* `replace` panics on a node without a parent. `append` accepts a second
document element. `MutableNodeMap::is_empty` answers the opposite. A refused move
of an element below itself still joins the texts around it.

*Namespaces.* `create_missing_prefixes` starts without the prefix `xml`: an element
with `xml:id` gets a prefix `n0` for that namespace, which the serializer then
uses and never declares, so that the output cannot be read; and it may overwrite a
declaration of `n0` that the element already has. `deduplicate_namespaces` removes
a declaration whose namespace is known above only under a prefix that the element
overrides, and one that an attribute needs when the default namespace is declared
twice. `clone_with_prefixes` drops a prefix that an attribute needs when its
namespace is also the default of the element. An element in no namespace below a
default namespace is written so that it is read back in that namespace. The HTML
serializer's `add_empty_prefix`, on an element without declarations, changes the
entry of an element above it. `prefix_for_namespace` gives up at the first
prefix that is overridden. The parser accepts two attributes of one expanded name
under different prefixes, and compares end tags by expanded name only.
`normalize_xml_id` strips one space at either end.

*Documents and construction.* A constructed node that is moved after it was
numbered keeps the order of its old tree. A parentless text that `xml_append`
merges is freed while a variable may hold it. Normalization of a value for
serialization indexes past its text pieces (`sequence/normalization.rs`).
`xsl:copy` of anything but an element evaluates its content all the same.

*XPath.* A predicate whose value is several nodes fails: whether it is a position is
decided by atomizing it (`interpret.rs`, `pop_is_numeric`), although "if it's not a numeric
expression we're going to interpret it as boolean" (`function_compiler.rs`, 725). The
meanings take it as true, as XPath does; `ResultIsMeaning` accepts an error of the machine
where the meaning has a value only if it stopped at such a predicate (`StoppedAtNodes`),
as some of the 8649 expressions do. Variables declared by XSLT are unknown to the renamer: the
second reference in one expression is refused. The compiler's table of variables is never
scoped. `1 => $f(?)` leaves its placeholder unbound, and a user's variable
`$placeholder0` is captured by one. A single step on a reverse axis is not sorted.

*Patterns and modes.* The matcher takes a descendant step greedily; `/descendant::a`
and anything with `a//b` never match; a positional predicate counts all children;
`*` matches documents and texts; operators have no precedence. Applying templates
in a mode without rules leaves the selected value on the stack; rules of mode
`#all` alone make no mode; `#current` is a `todo!()`.

*Reading of stylesheets.* Of the declarations the parser reads only
`xsl:accumulator`, `xsl:output` and `xsl:template`: a static variable or parameter,
which the static evaluator keeps, refuses the stylesheet. `parse_transform` gives
no static parameters. The attribute `lang` of several elements is looked for under the
name `language`. `xml:space` on an element of XSLT is refused as unknown. `xsl:text`
is always a value template, `expand-text` or not. `xsl:context-item` is looked for
in no namespace. The standard attributes of an element are read before its own
declarations are in scope. A value template counts bytes where it reads characters.
Any value of `xml:space` removes an entry of the stack, but only the two known
ones add one. A content that ends early inside `xsl:choose` or `xsl:merge` cuts off
what follows. A `use-when` below a global variable or parameter is never evaluated
(`evaluate_variable`, `evaluate_param`), although `staticeval.rs` says that "any element
with use-when that evaluates to false" is removed (lines 8 and 9). A
comment or processing instruction behind the root refuses the stylesheet. These are
named in `ReadingContracts` as exceptions to what is promised.

*XSLT instructions.* `xsl:variable` after other content is refused.
`next-iteration` stores into a variable that shadows the parameter, and with an
unknown parameter panics in the compiler; outside an iterate, and `break` before
other instructions, it is not refused. `position()` in `xsl:on-completion` is
accepted. Running out of frames inside a pattern predicate is swallowed and leaves
the pushed function and arguments among the operands of the caller.

## Proofs

Three components are proved about. The first is `XotTree`, the calls that change a tree, for
every finite or infinite set of nodes, any names and any sequence of calls.

| theorem | states | callers | consolidation |
|---|---|---|---|
| `TypeCorrect` | `[]TypeOK` | any | any |
| `AlwaysForest` | `[]ForestOK` | any | any |
| `RemovedStaysRemoved` | `RemovedForGood`, an action property | any | any |
| `RefusedMovesDisplaceNothing` | `[]RefusedMovesKeepPlaces` | any | any |
| `PiecesHeldOnce` | `[]TextHeldOnce` | any | any |
| `EntriesSorted` | `[]EntriesInOrder` | careful | any |
| `MapsChangeAsDocumented` | `[]MapContract` | careful | any |
| `EntriesAreMovedOrCopied` | `[]AppendEntryContract` | careful | any |
| `CarefulNeverPanic` | `[]NoPanic` | careful | any |
| `TakingOutKeepsContract` | `[]TakeOutContract` | careful | any |
| `WrappingKeepsContract` | `[]WrapContract` | careful | any |
| `MovesKeepContract` | `[]MoveContract` | careful | always on |
| `ReplacingKeepsContract` | `[]ReplaceContract` | careful | always on |
| `TextsNeverMeet` | `[]NoAdjacentTexts` | careful | always on |
| `TextNeverLost` | `NoTextLost`, an action property | careful | always on |

*Careful* is the hypothesis `~AnyCall`, *always on* is `~MaySwitch`. Both are needed:

* a normal node inserted beside an attribute lands among the attributes, which breaks
  the order, and the look-up of a map stops at it;
* the reference that a caller names may be a text that the move merges away, and the
  unwrap of its parent then panics;
* texts that were built while consolidation was off stay side by side when it is
  switched on, since a later move merges the two around the node it takes and nothing
  else. And text is lost: of three adjacent texts a, n, b at the end of an
  element, `append` of n to that element first merges b into a, then finds n itself
  as the last child, joins it with itself and frees it.

The second is `Documents`, the collection and a program that builds elements, with the
annotations of `DocumentOrder` and the copies and appends of `Construction`: for every
number of documents, URIs, nodes, items of a value and open elements.

| theorem | states | programs |
|---|---|---|
| `CollectionsAgree` | `[]CollectionAgrees` | any |
| `OrdersStay` | `OrdersKept`, an action property | any |
| `SourcesStay` | `SourcesUntouched`, an action property | any |
| `OrdersAgree` | `[]OrderAgrees` | careful |

*Careful* is `~AnyCall` again: values are careful, and no handle is used that a merge has
freed. `OrderAgrees` needs it because it says that nothing panics, which a freed handle in
a value makes it do.

The third is `Interpreter`, for every document, every number of frames and every program
for which `Verified` holds.

| theorem | states | programs |
|---|---|---|
| `MachineIsWellFormed` | `[]TypeOK` | balanced, predicates return |
| `StacksStayBalanced` | `[]StacksBalanced` | balanced, predicates return |
| `BasesTellRunsApart` | `[]BasesIdentifyRuns` | balanced, predicates return |
| `CallersStayUntouched` | `CallersUntouched`, an action property | balanced, predicates return |
| `MachineWithoutPredicates` | all four | balanced, without predicates in patterns |

*Balanced* is the hypothesis `Verified(Programs[program])`. That the compiler delivers such
code is not proved (it is recursive): `CodeAssumption`, which TLC evaluates in the three
program runs, says it of what becomes of each of their 13589 sources, unless it is
refused. It is not true of every source: `apply-templates` in a mode without rules compiles
to unbalanced code, and the runs have no such mode.
*Predicates return* is the hypothesis `[][PredicatesReturn]_vars`: no error is swallowed by
a pattern predicate. It excludes what `claim_failing_predicate` shows and nothing else: the
error leaves the frame of the predicate behind, and the native code goes on with frames and
stack out of step. Where no pattern has a predicate there is nothing that swallows an error,
so that all XPath expressions, and the stylesheets without such patterns, are
covered by the last theorem, which assumes nothing of the behaviour.

### The forest

All theorems rest on `Invariance`, `Spec => []Inv` with
`Inv == Good(tree) /\ panicked \in BOOLEAN` and `Good(t)` = `t` is a tree record
and a forest. `ForestOK` alone is not inductive: that a move keeps parent links and
lists in agreement needs the record's types, and that it keeps acyclicity needs
lists without repetition and links between live nodes only. The argument is by
operation: every primitive of `IndexTree` takes a good tree to a good tree
(first part of `XotTree_proofs`), every composite of `XotTree` is a chain of these with
conditions in between, including the chains that end in `err` or `panic` half
way, and every action stores the tree of some composite. Ancestry is defined
without recursion (the least set closed under parents), so that acyclicity can
be reasoned about without induction over data.

### The order of children

`XotOrder_proofs`: the inductive invariant is `OrderInv == Inv /\ Ordered(tree)`.
`Ordered` is about pairs of children, not about positions: if x stands before y then
x's category is not after y's, and two entries of one category have different names.
`Thinner(t, u)` says that u has no pairs which t has not. Every operation that takes
nodes out is thinner (cutting, freeing, merging, and chains of these), which leaves one
case for each of the four places where a node is put in: a normal node after the last
child, before the first normal one or beside a normal one; an entry at the insertion
point of its map. `EntriesInOrder` follows.

What a reader of the maps sees rests on the same order. A sorted list of children is
`Parted` into a run of namespaces, a run of attributes and the normal nodes, so that
`Entries` is the run of its category. A call either cuts one child out of the list
(`IsCut`), puts one in (`IsPut`) or gives one another value (`Revalued`), and each of these
does the same to the entries of one map of one element and nothing to any other
(`RunCut`, `RunPut`, `ValueSet`). Unique names make "the entry of that name" one position.

That a refused move displaces nothing needs `Inv` only: an `err` is returned before the
arena has been changed except by merges, and a merge unlinks the text that it frees and
no other node.

### Text

`XotTexts_proofs` is about neighbours: `Beside(t, x, y)`. `Spaced(t)` says that no two
texts are beside each other, `OnlyGap(t, a, b)` that a and b are the only two that may
be. Taking a node out of a spaced tree leaves a gap between its siblings at most; the
consolidation that precedes or follows is for these two, so it closes the gap; putting a
node in makes two pairs, and the consolidation at the new place has looked at both. This
gives `Fit(t) == Spaced(t) /\ t.consolidate` and the inductive invariant
`OrderInv /\ Fit(tree)`. The order of children is part of it because the code asks for
siblings, which are of the node's own category: only where entries come before the
content are the siblings of a normal node all that may be beside it and be a text.

`CarefulNeverPanic` uses `OrderInv` alone: every unwrap is of a node that is live and
placed, since with careful callers the merge before it can free only texts that the call
does not look at again, and the first and last child of an element agree about whether
there is one.

For `PiecesHeldOnce` the inductive invariant is `Inv /\ Once(tree)`, where `Once` adds
to the property that a fresh handle holds nothing. Each step `Conserves`: it invents no
piece and doubles none. It holds for any caller, for a text that is merged with itself
too, only because the node that is merged away is freed, and a freed node's value
is empty.

For `TextNeverLost` each step `Retains`: a piece in a live node stays in a live node.
A merge retains when the text that is kept is live and is not the one that is freed,
which is where `Spaced` comes in: the neighbours of a node on its two sides are different
nodes, and after the first merge of a move the second one does not find the freed
one again. `remove` and `replace` discard a subtree and are the exceptions
the property names.

### Contents

`XotContents_proofs` and `XotContracts_proofs` are about what a reader sees: the content
of a container, its children with the values of texts joined. The inductive invariants are
those above: `OrderInv`, `Once` (no piece is twice anywhere, so that "the content without
this segment" takes out nothing else) and, for moves and replacements, `Fit`.

A content is `Shown(t, q)`: the shares of the children of q, joined, where an entry has no
share, a text its value and any other node itself. Joining is defined step by step
(`Running`), so that it distributes over concatenation (`JointLaws`) although `FlattenSeq`
cannot be reasoned about by induction; concatenation is hidden behind `Cat` from there on
and used by its laws. A call is then followed along its steps:

* a merge changes two shares and drops a child, and what is shown stays the same
  (`PairJoined`, `TrioJoined`: the value of the text that goes is added to that of the text
  that stays, and nothing is shown between them);
* cutting a node out drops its share (`CutShares`), with the texts beside it merged or not
  (`RemoveShows`, and `Left` for a move);
* a node arrives between two texts, into the text before it, or into the one after it, and
  in each case its segment `Lands` where the call says;
* the two ends of a move can be the same content, or touch: the text that a merge
  at the old place frees may be the one beside which the node is to be put. Careful callers
  do not name it as reference, and `Spaced` says that there is no third text.

What the contract says is put together from sequences around the node (`Around`), and
`Without` works member by member (`WithoutParts`). `replace` and `element_unwrap` are two such
calls in a row, `element_wrap` puts a fresh element at a position and moves the node into it.

### Documents and their order

`DocumentOrder_proofs` is about one tree that stands still. `Before`, the order of the data
model, is stated by ancestors and by positions among siblings; it is proved to be
irreflexive, transitive and total on the nodes under one root. The walks of the code are
recursive functions with as many steps as there may be nodes. Two facts are proved of
each: the steps suffice, and one step of the walk is one step of the order, so that nothing
lies between a node and the node that `StepBack` or `NextAfter` goes to. The rank of a node (the number of
nodes before it) decreases with every step back, which bounds that walk; the walk on from
an annotated node meets the node that was asked for because it skips nothing. So
`GetOrder` does not panic, and the numbers it gives grow along the walk.

`Documents_proofs` is about trees that change. Every change of an instruction is a fresh
node that comes alive, or a node without a parent that is appended (`Changes`), and what
is appended to is an open element or a node that the instruction made. So a whole
instruction only lets the forest grow (`Grown`), `Spares` the children and values of nodes
that are in no open element, and two nodes of one tree keep their place to each other
(`Survives`). The inductive invariant `DocInv` has the forest, the sorted children and the
merged texts of `XotTree`, and

* `Notes`: two numbered nodes of one id have an ancestor in common that is not under
  construction, so that nothing will be put between them (`Housed`); their numbers are as
  far apart as there are nodes between them, so that every one of these can still be
  numbered (`Gapped`); a document has one id, that of its root (`OneId`);
* `TableInv`: the three tables of the collection, both ways;
* `OpenInv`: open elements are distinct, live and without parents.

`OrderAgrees` alone is not inductive: a walk starts at the nearest numbered node before the
one asked for and counts on, and that it does not run into the numbers behind needs
`Gapped`, which later instructions preserve only because of `Housed`.

### The machine

`Interpreter_proofs`: the inductive invariant `IInv` says of a machine that runs:

* `Framed`: frames are at instructions of their functions, the first is the main function
  with base 0, bases increase;
* `Linked`: a frame starts where the depth of its caller says, one slot higher if
  `for_each` calls (its own item is below), and just under the base is the item of the
  function that runs, as `ClosureVar` takes for granted;
* `Topped`: the stack is as high as the depth of the innermost frame says, one lower
  while `apply-templates` runs;
* `Waiting`: every activation but the innermost waits, each for a frame of its own, and
  their bases increase;
* `Building`: the sequences under construction are those of the frames, in order;
* `Items`: all items on the stacks are from a set that has, with an item, all that it
  captured, and a function item has captured what its function names.

`StacksBalanced` alone is not inductive: that a return finds its caller's operands in place
needs `Linked` for the frames below, that the loop which ends is the right one needs
`Waiting`, and that a call enters a function with the right number of captured values needs
`Items`. The proof has a lemma for every action. Instructions are three cases (an operand
for others, a jump, a failure) of `LocalStep` with the effect of the opcode; calls are
`FrameEnters`, returns `FrameLeaves` with the three places they can go to (the host,
code, native code that waits). An error without a predicate that waits ends the run.

### Assumptions

There are finitely many handles (`NodesAreFinite`; an arena has as many slots as an index
can tell apart), which the walks of `DocumentOrder` need in order to end; the theorems
about `XotTree` do not use it. The length of values has a bound (`BoundsAreNatural`).
The tree of `Values` lists every node after its parent (`TreeAssumption`), the context item is
an atomic value or a node (`ContextItemAssumption`), there is room for one frame
(`FramesMaxAssumption`).
The kinds of nodes are disjoint sets, `NoNode` is none of them and the two flags are
Boolean (`KindsAreDisjoint`, `NoNodeIsNoNode`, `FlagsAreBoolean`, evaluated by the runs).
Calls with the outcome `"undefined"` are excluded in the actions' guard, in the proofs as
in the runs.

### Only model-checked

Induction as the library states it takes an operator as a parameter, which the installed
provers cannot instantiate. Where the recursion is a function over numbers, the least
number at which a statement fails does the same (`Least`, `Counting` and `Iteration` in
`XotTree_proofs`, for the walks over documents, the machine and joined contents). What is left to TLC:

* The refinement to `XotContent` (`ImplementsContent`), which finds the segments of all
  contents again by where they may be cut. The four contracts about content are the
  greater part of its steps, and they are proved.
* `AppendsValue`, what an instruction adds to an element: a value has any number of
  items, and what it becomes is a recursion over them.
* Liveness: `Termination` and the fairness behind it.
* The compilers, the regex engines, namespaces and the reader of stylesheets: their
  properties compare with a meaning that is recursive over trees of any depth
  (RECURSIVE operators).
* That compiled code is balanced, for all sources.

## Not modelled

* Grammars without state between calls: the lexers and parsers of XML, XPath and
  regular expressions; formatting of output.
* Computations on values: atomic types, casts, dates, decimals, strings, deep
  equality and sorting, the function library; the Unicode tables.
* The static and dynamic context (tables fixed before the run), the query API,
  CLI, REPL and conformance runner.
* In `xot`: `remove_insignificant_whitespace`, indentation with its stack of
  `xml:space`, the HTML and JSON serializers, what becomes of the id map while the
  tree changes (it is left as it is), fragments.
* In the compilers: casts, look-ups, maps and arrays; the lowering of instructions
  that construct nodes (one instruction each; what they make the machine do is in
  `Construction`); the widths of operands.
* In the reader of stylesheets: the grammar of the values of attributes (names,
  patterns, types), which are one word that is good or bad.
* In the regex engines: budgets and the cache of compiled patterns (counters that
  turn an answer into an error), case folding, replacement strings.
* JSON.

## Plan

1. The refinement to `XotContent` as a theorem, from the contracts: that the segments of a
   content are those of the nodes in it, and what is inside a segment is its subtree.
2. Proofs about `Namespaces`: a scope built by `Declare` never has two entries of
   one prefix, and walking up agrees with walking down for any tree.
