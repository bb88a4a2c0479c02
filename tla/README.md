# A verification development of brmh

brmh is a batch compiler for a small functional language: it reads one source
file, lexes and parses it, infers types, converts to a CPS intermediate
representation, schedules expressions along the dominator tree, generates LLVM
IR, emits an object file and links it. It is one process with one thread. What
is hard in it is not concurrency but *shared mutable graphs and long sequences
of legal calls*: type variables whose links are rewritten while they are being
read, environments that hold raw pointers to each other and move, arenas that
change hands, and passes that rely on the order in which an earlier pass visited
things.

All paths below are relative to `src/cpp/`.

## Inventory

| Component | State | Operations | What makes it correct |
|---|---|---|---|
| Names (`name.*`) | a counter, spellings by name, names by spelling | `sourced`, `fresh`, `freshen` | a spelling is interned once; a fresh name was never given out; renaming keeps the spelling |
| TypeEnv (`typeenv.hpp`) | bindings, raw pointer to the parent frame | `push_frame`, `declare`, `find`, `uv`, move, destruction | a parent outlives its children; `find` ends at the innermost declaration |
| Typer (`typer.cpp` 10-198) | the frames on its stack, the F-AST under construction | `declare`, `check`, `type_of` per node | scopes open and close as in the source; every definition is found; every type ends up known |
| Types and unification (`type.*`, `typer.cpp` 200-282) | type objects, `parent_` and `rank_` of variables | `uv`, `fn`, `find`, `unify` and its dispatches, `occurs_check`, `to_llvm` | links acyclic; success and failure exactly as the equations demand; termination |
| BumpArena (`bumparena.*`) | current bumper, retired bumpers | construction, `alloc`, `alloc_array`, move, destruction | each chunk has one owner; objects are disjoint, aligned, in a live chunk |
| Lexer (`lexer.*`) | text position, line and column | `peek`, `peek_some`, `next`, `match` | each text has the tokens its keywords and identifiers say; positions follow the text |
| Parser (`parser.*`) | the lexer, names interned | one function per nonterminal | accepts the language of the grammar in its comments |
| AST, F-AST (`ast.*`, `fast.*`) | immutable nodes; F-AST nodes live in an arena | construction, printing | - |
| CPS conversion (`to_cps.cpp`) | the Builder: current block, named expressions | `to_cps` per node, two kinds of continuation | each block gets one transfer; a name stands for its value; operands are expressions |
| CPS IR (`cps/cps.*`) | functions, blocks, transfers, expressions | visits in postorder and preorder | each reachable node is visited once, uses after operands |
| Dominator tree (`cps/doms.*`) | postorder numbers, immediate dominators | `of`, `lca`, `pre_visit_blocks` | the tree is the dominance relation; `lca` is the closest common ancestor |
| Late scheduling (`cps/schedule.*`) | block of each expression | `schedule_late` | the block dominates every use of the expression |
| LLVM generation (`to_llvm.*`) | LLVM values by expression, blocks, phi inputs | declare, fill, patch | a value exists before its use; each phi has one input per predecessor |
| Driver (`main.cpp`) | phase, object file | argument parsing, phases, link | a failure is reported and leaves nothing behind |
| Positions, sources, errors (`pos.*`, `span.*`, `src.*`, `filename.*`, `error.*`, `util.*`) | - | - | values and input/output |

How they interact: the driver calls the passes in order. The parser owns a lexer
and shares `Names` and `Types` with the typer, so names are interned before any
is freshened. The typer asks a `TypeEnv` for names, `Types` for type objects,
and calls `unify` between them. Each later IR is owned by an arena that its
builder moves into it. The only callbacks are the visitors of the CPS IR.
Nothing is persisted, nothing waits, nothing runs concurrently: the modules have
no crash, message or timer actions because the program has none. What replaces
them are *stacks of activations*: a recursive function is modelled one step at a
time with its pending calls as state, so that everything it reads after a nested
call has changed the graph is read from the changed graph.

## Modules

### Unification: `Unify`, `UnifyCorrect`, `UnifyPromise`, `MCUnify`, `UnifyProofs`

`Unify` is `struct Type` and its subclasses. `uvs` and `fns` are the allocated
objects, `domain`, `codomain`, `parent` and `rank` their fields, `todo` the stack
of activations of `Type::unify` (`at = 0`) and of the loop of
`FnType::unifyFoundFns` (`at = i`, about to look at parameter `i`). `pc`, `cur`,
`path` and `found` are the locals of the innermost `unify`: `FindThis`,
`FindParent` and `FoundThis` are the recursion of `Uv::find` on the receiver and
its unwinding with path compression, `FindParent` and `FoundOther` the same for
the argument, which may already see the links the first one rewrote. The
dispatch on the two representatives is one action per overload: `Same`,
`UnifyUvs` (`union_` by rank), `BindThis` and `BindOther` (occurs check, then
`set`), `UnifyFns`, `Clash`. `UnifyParam`, `UnifyCodomain` and `ArityMismatch`
are the iterations and exits of `unifyFoundFns`, with the change of sides that
the double dispatch makes. An exception sets `outcome` and leaves the state as it
is: the program ends with it.

Between two calls the typer may allocate a variable (`NewUv`), the type of a call
(`CallType`: fresh variables only) or of a definition (`DefType`: the variables
of its parameters and an annotated result), and pose any pair of types whose
receiver is not a bare function type (`Unify`), as in `Expr::check`, `Pat::check`
and `FunDef::check`. The occurs check, a recursive function without effects, is
one evaluation: `Occurs(uv, t)` says that no set closed under children separates
`t` from `uv`. This form also needs no recursive operator, so the module can be
proved about.

`UnifyCorrect` states what correct means. An *assignment* gives each type object
a term, the base types themselves. It is `Free` when function types are freely generated
finite terms. Then
`Sound` and `MostGeneral` say that among free assignments, those that satisfy
the links and the pending activations are those that satisfy the pairs posed.
`UnifyPromise` is the abstract specification: a pair is posed, and answered by
whether all pairs so far have a common solution (`Solvable`), an assignment of finite
terms that does not equate two kinds of type; there are no links, ranks or paths in it.
Its terms are named by types, those of function types by function types: no solution
needs more.
`Unify` implements it (`KeepsPromise`).

### Names and scopes: `Scopes`, `LexicalScopes`, `MCScopes`, `ScopesProofs`

`Scopes` joins `Names`, `TypeEnv` and the walk of the typer over a program.
`chars` and `by_chars` are the maps of `Names` (a name is its number, so `chars`
is the spelling by number and its length the counter). A `TypeEnv` lives at an
address; `live`, `parent` and `bindings` describe what is there. `stack` and
`kinds` are the activations of the typer that own a frame. The program is not an
input: in any place where an expression is typed, a name may be used (`Use`), a
statement entered (`EnterVal`, `BindVal`, ending with `Leave`) or a call typed
(`CallUv`), so the runs cover all programs of the size of the instance.
`BindVal` is the second half of `Val::check` with the return by move: the frame
continues at another address. `Use`, `Found`, `FindInParent` and `Unbound` are
`Id::type_of` with one step of `TypeEnv::find` per frame. A declaration takes two
names, one in `uv()` and one in `freshen`, in that order.

`LexicalScopes` is what the typer should do in terms of scopes alone: a stack of
partial functions, no addresses, no parents. Every state of `Scopes` is read as
one with `scopes <- [k \in DOMAIN stack |-> bindings[stack[k]]]`, and
`ResolvesLexically` says that each step opens, fills or closes the innermost
scope, asks for a name, or answers with the innermost binding, or else changes
nothing there.

### Arena: `BumpArena`, `MCBumpArena`, `BumpArenaProofs`

Several arenas over a heap of chunks at given addresses. `AllocHere` is `alloc`
or `alloc_array` with room left; `AllocNext` and `AllocFails` retire the bumper
(move into `bumpers_`, `operator=` from a new one) and retry once. `Move` is the
implicit move constructor of `BumpArena`, used by `Builder::build` and
`DomTreeBuilder::build`; it empties the source but leaves its `free` stale.
`Destroy` deletes the chunks. `objects` records what the callers hold.

### Control flow and dominators: `ControlFlow`, `Dominators`, `MCDominators`, and their proofs

`ControlFlow` is the part of `to_cps` that decides which blocks a function has.
An expression is converted in the current block with a continuation. A trivial
one names where the value goes, any other lets the caller go on. `todo` is the
stack of conversions under a trivial continuation, `succ` the transfers made so
far. `Goto` is the end of one (`ToCpsTrivialCont`), `CallNext` a call that the
caller goes on after (`ToCpsNextCont::call_to`), `IfTail` and `IfJoin` the two
halves of `If::to_cps`. The program is chosen on the way: which action happens
next in a task is what the expression there is. In a tail call the callee is
converted with the call's own continuation, and the transfer that it makes is
then written over; only the final one is in `succ`.

`Dominators` extends it with `DomTree::of` and the uses of the tree. `dfs` is the
stack of `do_post_visit`, `order` is `post_order`, and from there on blocks go by
their number, as in the code. `i`, `changed`, `preds` and `new_idom` are the
locals of the fixpoint, `finger` those of `intersect` and of the walk of `lca`.
`SkipBlock` and `FirstPredecessor` are the search for a predecessor that has a
dominator, `NextPredecessor`, `MoveFinger` and `Intersected` the loop over the
others, `SetDominator` its end. `AddNode` is the expansion, `Ask`, `MoveNode` and
`Met` are `lca`, the rest is `pre_visit_blocks`, whose map may have any order.
`value()`, `at()` and `unwrap()` that fail set `outcome`. Dominance is defined
without paths: `a` dominates `b` if some set with the entry and without `b` is
left by the transfers of `a` only.

`lca` returns `block1` and not the node where its walk ends, as `Met` does. The
properties here are about the walk; `Codegen` has what a schedule built from the
result leads to.

### From expressions to LLVM: `ToCps`, `Codegen`, `MCCodegen`, `CodegenProofs`

`ToCps` is `to_cps.cpp` with the `Builder` it fills. `exprs` are the expressions
allocated, `params` and `transfer` the blocks, `defs` the map of names, `current`
the current block. `to_cps` is recursive and leaves its results in the Builder:
`stack` holds its activations, each with its continuation `k` (trivial, or one
that defines a name), the name it suggests, the type, and the values that its
operands have returned. As elsewhere the program is chosen on the way: an
activation of form `expr` becomes an identifier, a constant, a `val`, a primitive,
a conditional or a call (`Id`, `Const`, `Val`, `Prim`, `If`, `Call`), where types
and scope allow. `Operand`, `Apply` and `CallTo` go on after the operands, `Branch`,
`Alternative` and `Join` are the three parts of `If::to_cps`. What looks odd is the
code's: the callee is converted with the continuation of the call, so it may write a
transfer that is written over, define the name that the call should define
(`Define` inserts, the first value stays), or return nullptr.

`ToCps` implements `ControlFlow` (`ConvertsFlow`): `FlowSucc` and `FlowTodo` read
the blocks and tasks off the Builder and the stack. This is proved
(`ConversionFlows`), so the theorems about `FlowSpec` are about the graphs that
`ToCps` builds.

`Codegen` extends it with the passes that follow: the visit of blocks and
expressions in postorder (`agenda` holds what the recursive visits have left),
`schedule_late` (`ScheduleExpr`, with `Lca` as the code has it), the lookup in
`Fn::print_def` that can fail, and `Fn::llvm_define`: phis declared for the blocks
that have predecessors, blocks filled in any order that has dominators first (the
node map is unordered, and `Dominators` shows that this is what it amounts to),
operands built where they are first needed and remembered (`home`), phi inputs
recorded by predecessor and patched at the end. `pc` is the pass, or how the
compiler ended: "done", "null" (nullptr dereferenced), "unscheduled", "no_exprs",
"missing", "no_input" (`at()` that throws).

### Characters and tokens: `Lexer`, `TokenCursor`, `MCLexer`, `LexerProofs`

`Lexer` is `lexer.cpp` over single characters. `chars` is the pointer into `text`,
`line` and `column` the position, `call` the method that runs, `tok` what the last
`peek` gave. A call of `next` or `match` peeks first, as in the code: `SkipBlank` is
one turn of the loop over blanks, with the `Pos::next` it calls; `LexMark`,
`LexPrimop`, `LexId`, `LexInt` and `NoToken` are its other cases, and `Return` what
the method then does with the token. `WordType` compares an identifier with the
keywords by `strncmp` with the size of the token, in the order of the code.

`TokenCursor` is what the parser may rely on: `rest` is a sequence of types of tokens
that `peek` leaves alone, `next` shortens and `match` shortens if the first has the
type. `Lexer` implements it (`ReadsTokens`) with `rest <- to_come`, a history variable
that starts with the tokens of the text by the longest word (`TokensOfText`, which
looks at the text only) and `got <- tok.type`. It is why `Parser` may choose its
text token by token.

### Syntax: `Grammar`, `Parser`, `MCParser`, `ParserProofs`

`Parser` is every function of `parser.cpp` as steps over the lexer: `stack` has what
their activations still have to do, a call, `Lexer::next` or `Lexer::match`. The
text is chosen token by token; `None` is the end, or a character that begins no
token. `Grammar` is the language in the comments of the parser, read from left to
right: a sequence of symbols stands for the texts that can follow, and
`After(symbols, t).rest` is what can follow `t` there. `Rules` is written such that the
next token decides on the rule, and a text of the language has every token of its rules.
The program asks `Lexer::match` for some of them (`Matched`), which goes on when another
token is there; `After` reads on behind those too, and `missing` is the set of those
that the text lacks. `expected`, `lacking` and `gaps` follow the discarded tokens, so that the
properties compare the program's answer with the language at the end of every text.

### Types of a definition: `Typer`, `MCTyper`

`Typer` is the order in which `Program::check`, `FunDef::check` and `type_of` of each
kind of node make types and pose pairs, over the machine of `Unify`. `work` has
what the activations have left, `result` the type returned last. It ends where
`llvm_declare` asks for the LLVM types of the parameters and the result.

### Definitions of a program: `Definitions`, `MCDefinitions`, `DefinitionsProofs`

`Definitions` is a program of several functions, from the declarations of the typer to
the LLVM module; a body is one use of a name. `Declare` is `FunDef::declare` of the
next definition the program turns out to have, `CheckDef` `FunDef::check` with the
unique names of the parameters and of the use, `CpsDeclare` and `ToCps` the two passes
of `Program::to_cps`, `PrintDefs` the visit of every entry that `main` makes before
LLVM, `LlvmDeclare` and `LlvmDefine` those of `Program::to_llvm`. `spelling` is what
`Names` knows of each unique name, `env` the outermost `TypeEnv`, `exprs` the one map of
names of the Builder, in which a name that is there stays as it is, `fns` every
`cps::Fn` with its entry, `funs` the functions of the module with the body that was
put into them. The module is external: it renames a function whose name is taken.
`pc` is the pass or the end, as in `Codegen`.

## What the runs show

| Run | Instance | Properties |
|---|---|---|
| `unify` | at most 3 variables and 2 function types of at most 1 parameter, 3 goals, 6 of them together; 4 terms, fairness | `TypeOK`, `Acyclic`, `RankBounded`, `Sound`, `MostGeneral`, `ErrorsJustified`, `BindingsPermanent`, `Terminates`, `KeepsPromise` |
| `arena` | 3 arenas, 3 chunks of 32 bytes, two adjacent, requests 0, 8, 32, 40, 400 | `TypeOK`, `OwnedOnce`, `NoOverlap`, `ObjectsInOwnedChunks`, `FailsOnlyIfHuge` |
| `scopes` | 2 spellings, 2 definitions, 5 addresses, 12 names | `TypeOK`, `NoDangling`, `UniqueBinders`, `ResolvesLexically` |
| `dominators` | every function of at most 7 blocks, fairness | `TypeOK`, `FlowStructured`, `PostOrderDescends`, `ImmediateDominators`, `NothingThrown`, `MeetsAtClosest`, `DominatorsFirst`, `DomsStable`, `Terminates` |
| `compile` | every function of at most 9 nodes | `ConvertsFlow`, `OperandsDominate`, `UsesScheduledFirst`, `GoodScheduleSuffices`, `PhisComplete` |
| `lexer` | every text of at most 4 characters, fairness | `PositionsCount`, `ReadsTokens`, `Returns` |
| `parser` | every text of at most 14 tokens | `GrammaticalAccepted`, `OnlyGrammaticalAccepted` |
| `definitions` | every program with at most 4 definitions and parameters, 3 spellings | `TypeOK`, `LinksLexically`, `FailuresJustified` |
| `null_unused`, `shared_values` | every function of at most 7 nodes | violated: `NullUnused`, `SharedValuesCreated` |
| `blocks_as_commented` | every text of at most 14 tokens | violated: `BlocksAsCommented` |
| `types_resolved` | 4 variables, 2 function types, arity 1, 6 goals, 1 expression with parts | violated: `TypesResolved` |

The runs that end in a violation state what a comment or an assertion says and show
what the program does instead; see *Findings*.

Bounds, and why they are enough to see the interesting cases:

- *Unification.* Two variables and two goals make a link to a linked variable, which a
  third goal compresses; a third variable gives a tie of ranks on either side. Two
  function types give a call against a definition, and a type that contains the
  other's variable, so the occurs check fails through a function type. Arity 0
  against 1 gives the mismatch. `MaxGoals` counts different pairs, so that posing
  one again, which must change nothing that matters, is free. `Small` bounds objects
  and goals together by `MaxSize` (all five objects with one goal, four with two, three
  with three) and leaves out pairs of a type with itself: the two sides of a pair posed
  again have one representative as well.
  Two terms besides the base types suffice to tell two function types with different
  parts apart, from each other and from a variable that is not bound.
- *Arena.* One chunk is two alignment units: a chunk can be empty, half full or
  full, a request may fit exactly (32), only after a retry, or never (40, 400),
  and 400 exceeds the lowest addresses so that the subtraction wraps. Two chunks
  touch, so an object that leaves one would overlap the other. Only
  `AllocFails` and `AllocNext` consume chunks, so three of them allow two
  retirements, or a retirement with a second arena.
- *Scopes.* Five frames allow the program, a function, a statement, its moved
  frame and a nested block. Twelve names are six declarations and uses between
  them. Two spellings let an inner binding hide an outer one while another is
  looked up past it.

- *Dominators.* A conditional whose value is used has four blocks with the one it
  starts in. Seven leave room for a second one nested in a branch, after it, or
  around it, for calls in the branches, and for joins whose predecessors are at
  different depths of the tree, so that both fingers move more than once.
- *Compilation.* Nine nodes are a `val` and a conditional with calls or further
  conditionals in its places, or a call whose callee is a conditional. The function
  converted has three parameters, one of each sort that matters (a base value, a
  condition, a function that gives functions), and calls have one argument.
- *Characters.* Two letters, a digit, a mark, the underscore, two blanks (one of which
  ends the line) and one unknown character. Four characters are enough for two tokens
  that touch, or blanks before, between and after tokens, for an operator of two
  underscores with a name behind it or the end of the text, for a single underscore
  after a token, and for a word that two keywords begin with.
- *Definitions.* Four names are four definitions, or two with a parameter each, or one
  with three parameters: uses before the definition, of itself, of a parameter that
  hides a function, of a repeated parameter, of nothing, and two definitions of a name.
- *Syntax.* `fun id ( ) : type { id }` has nine tokens; fourteen leave room for a
  parameter, a statement, an argument list or a nested block in it, and for text
  after an error.
- *Typing.* The counterexample needs a definition, a parameter and an atom; four
  variables also allow a call or a `val`.

Deadlock checking is off except in `dominators`: the compiler stops, with a
result or an exception, and so do the models (`CHECK_DEADLOCK FALSE`). In
`dominators` a tree that has been built can always be asked again.

Symmetry is over arenas, addresses and spellings, which are only compared for
equality, and never in a run with a liveness property. In `unify` the objects of a
kind are as interchangeable, and are allocated in one order instead (`InOrder`); the
order, like `Small`, is a condition on steps that are not fair, so it is sound for
`Terminates` too.

*Fairness.* The liveness properties are the two `Terminates` and `Returns`. In `Unify`,
`FairSpec`, and `MCSpec` of its run, assume weak fairness of `Step`, the next step of a
running call of `unify`; in `Dominators`, of `Work`, the next step of what is under way;
in `Lexer`, of `Lex`, the next step of a method that was called. The compiler is a single
thread and nothing in these passes waits, so a call that can take a step takes it.
Nothing is assumed about the typer posing further goals, the tree being used or the
lexer being called.

Each property of a passing run is accompanied by a mutated definition, next to the
original in its module, that breaks it in the way a slip in the code would: the
wrong one of two representatives is bound, ranks are ignored, a loop stops at the
shorter list, the alignment rounds up, `insert` takes the source name, the second
branch is converted where the first ended, an expression is listed before its
operands, any token but `fun` ends the program.

## Findings

Found while modelling, each shown by a run that ends in the violation:

- **The block of a shared value** (`shared_values`). `DomTree::lca` walks up to the
  closest common dominator and then returns `block1` (`cps/doms.cpp:100`). An
  expression with uses in two blocks is placed in the block of the use visited first,
  which need not dominate the other; the other block is filled first, and
  `ctx.exprs.at` throws. It takes no more than a function that is called in both branches
  of a conditional. `GoodScheduleSuffices` is the other half: with a schedule that
  dominates the uses, the generator would be right.
- **The value that is not used** (`null_unused`). `to_cps.cpp:42` and `:68` return
  nullptr, "will not be used". In the tail call `g(x)(y)` the callee is itself
  converted as a tail call, and its nullptr becomes an operand.
- **Unresolved types** (`types_resolved`). With `fun f(x): bool {True}` the type of
  `x` is still a variable when its LLVM type is asked for, which `type.cpp:13` asserts
  it is not.
- **Punctuation that is not asked for** (`blocks_as_commented`). The comment at
  `parser.cpp:74`, `block ::= '{' (stmt ';')* expr '}'`, requires a semicolon after each
  statement and the closing brace. `parse_block` asks `Lexer::match` for both, which
  discards a token of the right kind and ignores any other (`lexer.cpp:149`). So
  `fun id(): type { val id = id id }` is accepted without the semicolon, and
  `fun id(): type { id fun id(): type { id }` without the first brace. A brace can be
  missing before another token only: at the end of the text `expr()` throws before,
  when it peeks for an argument list (`parser.cpp:101`). The same holds of the other
  tokens that are matched. `OnlyGrammaticalAccepted` is what does hold: a text that
  is accepted and lacks no token is one of the language.

Seen while reading, and part of the models, but contradicted by no document:

- `val x = f(1)`: the callee `f` is converted with the continuation of the call, which
  defines `x` as `f`; `Builder::define` inserts, so the later definition has no
  effect and `x` stands for the function.
- `if b {x} else {x}`: `x` is scheduled in one of the branches, the other has no
  expression, and `block_exprs.at` throws in `print_def` (`cps/cps.cpp:98`), before
  LLVM is reached.
- A word is compared with a keyword up to the length of the word (`lexer.cpp:102`), so
  every beginning of a keyword is that keyword: `i`, `f`, `v` or `e` cannot be names.
  `TypeOf` states it, and `ReadsTokens` that it is what happens.
- The position after a primitive operator is two columns short, because `end` starts at
  the underscores (`lexer.cpp:81`). `PositionsCount` states it exactly.
- Two definitions of one name share its unique name (`typer.cpp:29` ignores that the
  name is taken), so one `Fn` gets both bodies, the later in place of the earlier, and
  the other never gets an entry, which the printer then dereferences.
  `FailuresJustified` says that it happens with such programs and no others.
- A text that ends early and an unknown character are both "no token": between two
  definitions an unknown character ends the program without an error.

Outside the models: the digits of a literal are copied without a terminator
(`cps/cps.hpp:589`), the result of `verifyFunction` is ignored, a call through a
parameter casts its value to `llvm::Function*`, and the driver catches only the
compiler's own exceptions, so the `out_of_range` and `bad_optional_access` above leave
the process, and an object file stays behind when no code can be emitted for it
(`main.cpp:181`).

## What is proved

The proofs hold for all values of the constants that satisfy the `ASSUME`s:
any number of variables, function types, goals, parameters, arenas, chunks,
addresses, spellings, definitions, blocks, expressions and tokens, any chunk size that is a multiple of the
alignment, chunks at any disjoint aligned addresses.

**`UnifyProofs`.** `TypesCorrect` is inductive by itself. `LinksAcyclic`: a set
of types without a member whose children are all outside would be a cycle;
binding adds one edge, from the variable to a type it does not occur in, and the
closed set that witnesses `~Occurs` separates the two; union adds an edge between
two roots; compression replaces an edge by a path. `UnifySound`,
`UnifyMostGeneral` and `UnifyErrorsJustified` come from one invariant, `Meaning`:
the three properties and `FindMeaning`, that under an assignment which satisfies
the links, `cur`, everything on `path`, and the type that find started from are
equal. Without it nothing would connect the representatives at the time of the
dispatch to the two sides of the activation. Each action then trades one
activation or link for others that demand the same of every free assignment; in
the failing occurs check it is `Finite` that refutes every assignment.
`Meaning` is about `Readings`, assignments whose terms may be the constant `Term`'s or
named by types.

`UnifyKeepsPromise` is the refinement, and needs more than `UnifyErrorsJustified`: that a call
that returns leaves pairs with a solution. The links alone do not give one, since the
code never links two function types that it has unified. `Reading` is built from the
links when the work is done: every type has one representative (`RepExists`, from
`Acyclic`), and two representatives are `Alike` if some relation that pairs them
pairs the representatives of the parts of whatever function types it pairs (`Matching`).
`Alike` is an equivalence, equal function types are those with equal parts
(`AlikeFunctions`), and a term that is part of itself would be a cycle of links and parts
(`ReadingFinite`). So `Reading` is free and fits the links, and by soundness it fits the
pairs (`ReadingSolves`). `BindingsArePermanent` follows from `TypesCorrect`. `RanksBounded` needs `RankInv`:
ranks grow along the links and along the path of a running find, so compression never
moves a variable out of the class of a representative that is counted, and a
representative of rank `r` has a class of at least `2^r`. `Below(u)` is that class
without paths, by sets closed under links; a union of two classes of equal rank adds two
disjoint ones. The powers are those of `FS_SUBSET`: `PowerOfTwo` gets
`2^(n+1) = 2^n + 2^n` by counting subsets.

**`BumpArenaProofs`.** `IInv` adds to the five properties that the cursor of a
live arena lies within its chunk (`CursorInChunk`) and below the objects of that
chunk (`CursorBelowObjects`). From these, a bump lands below all objects of its
chunk, and objects of other chunks are apart because the chunks are.

**`ScopesProofs`.** `IInv` adds `Chain` (live frames are those of the stack,
pairwise different, and the parent of each is the frame of the next activation),
`FindOK` (a running find has looked at the frames inside the one it looks at) and
`DefsOK` (the definitions still to check are declared in the outermost frame).
`FrameSteps` reduces the actions to the five things a step does to frames: nothing,
push, declare in place, declare and move, pop. `ScopingIsLexical` proves the
refinement `Spec => ResolvesLexically` from it.

**`DominatorsProofs`.** First the control flow. `Moves` says once what each action does to the graph: the
current block gets successors that are new or the block where its value goes, and
tasks of new blocks come in place of the first task. `FlowInv` is inductive: types,
`OneTransfer`, `NoLoops`, and `Reached`, which is `AllReached` for a function under
construction, where a block also leads to the block that its task passes its value
to. A loop would have to go through the current block, whose only old successor is
waiting for its turn and has no transfer by `OneTransfer`.

A `Dominators` is a `ControlFlow` (`DominatorsFlow`), so
`FlowInv` gives `BlocksHaveNoLoops`, `OneTransferPerBlock` and `BlocksReached`, and
together `FlowIsStructured`. For
the postorder, `OrderInv` says that `order` is closed under successors, that each
activation of `do_post_visit` is for a successor of the next, and that the successors
an activation is past are in `order`, except for the one whose activation is inside
it. A successor that has been visited is therefore in `order` or on the stack, and on
the stack it cannot be: the activations inside it would be a set in which every block
has a successor, against `NoLoops`. This is `PostOrderIsDescending`; the lemmas
`Numbers` and `TransfersDescend` say the same of the numbers.

For the fixpoint, the code compares numbers, and the proof connects them with
paths. `AboveIn(I, D, n)` is the set of numbers on the way up from `n` in the tree
`D`. The invariant `FixInv` has two halves. `Meets`: above the dominator of a block is
what is above all its predecessors, so that a step of `intersect` or `lca` changes a
finger but not the intersection of what is above the two (`FingerClimbs`: the lower
finger is not above the higher). `TreeOK` and `LoopOK`: parents have higher numbers,
and the blocks that have a dominator are those above some number, so that every
predecessor that is looked at has one and nothing is thrown. When a block that has a
dominator gets one, `Meets` makes it the same (`SetsOnce`), which is
`DominatorsStable`. `AboveDominates` shows that a finished tree with `Meets` is
dominance as defined by sets of blocks: from a separating set for one direction, and
from the highest number that would be an exception for the other. The theorems
`DominatorsAreImmediate` and `MeetsAtClosestDominator` then only count.
`DominatorsComeFirst` needs `VisitInv`: the activations of `do_pre_visit` have
descending numbers from the innermost on, so the parent of the innermost has been
left, not merely visited.

**`DefinitionsProofs`.** A unique name is first the number of a definition, then of a
parameter, and `IInv` follows it through the passes: `FirstBound` (the frame gives a
spelling the first definition of it), `Resolved` (a use has the name of the first
parameter of its spelling, or of that definition), `ParamsFresh` (parameters of all
functions have names of their own, above those of the definitions), `NamesStand` (in the
map of the Builder a name of a definition is its `Fn`, another the parameter of a
function already converted), `Converted` (the body of a definition is in the `Fn` of
the first definition of that name) and `Linked` (in the module a function has the
number of its definition). `ParamsFresh` is what one map for all functions needs; that
every `Fn` has an entry makes the definitions distinct by counting, and only then do
lookups by spelling find the right function. `FailuresJustified` is part of the
induction, because it is why the LLVM passes see distinct names.

**`ParserProofs`.** `Reads(st, S)` gives each step on the stack the symbols it reads: a
call the rest of its rule, with the token that ends a list, a `match` its token. The
invariant `ParserInv` says that the stack reads some `S` such that what `Grammar`
expects and `S` go on alike from the token at hand (`Agrees`), unless a token is missing
and the parser will not get past it. `Guarded` keeps the two from differing at an end:
what may be left out stands before something that may not. One lemma per function of
the parser shows that the steps it pushes read what its symbol gave way to. The two
theorems then look at the end only: nothing is left on the stack, so the grammar
expects the end.

**`LexerProofs`.** The reference `TokensOfText` is a function that is recursive over the
text. Definition by CHOOSE says nothing unless there is such a function: `RestsExist`
builds it from the end of the text backwards, by the smallest suffix that fails (`SmallestOf`),
since what follows a word depends only on what is beyond it. Then each loop of the lexer counts
the longest word (`IdIsLongest` and its like), comparing up to the length of the word
finds the keywords that it begins (`WordTypeIs`), and the invariant is that
`to_come` is what the text has from `chars` on (`LexInv`). Every step is then a step of
`TokenCursor` or a stutter (`LexerIsCursor`). `PositionsAlwaysCount` counts, over the same
words, the newlines before `chars` and the characters since the last one. The text, the
classes of characters and the keywords are arbitrary; `TextAssumption` says that the classes
are disjoint, as `isalpha`, `isdigit`, `isspace` and the cases of the `switch` are, and
that keywords are words.

**`CodegenProofs`.** `CompileInv` has a part for each pass. `Converts` is about the whole
stack of `to_cps`: `Waits` says for each activation which continuation and name the one
inside it was given, in every phase of a call, a primitive, a conditional or a `val`;
`Named` that every name in scope has a value, except the one whose value is under way;
`TransferOK` that a `goto` or a call leads to a block with one parameter and a branch
to two without; `TransfersOK` that a block without a transfer is the current one or
waits for its turn on the stack. None of them would be inductive without the others:
where the result of an activation goes is decided by the activation around it, and the
callee of a call is converted with the continuation of the call. `Walks` is about the
recursive visits: what is entered is left once (`EnteredOnce`), what
is done before the return from an expression is about older ones (`Descending`, from
operands being older), so an operand that was entered before and is not yet left is
left first (`LeftOrEntered`). This gives `OperandsFirst`; with `Schedules`, the schedule is the end
of the postorder, it is `UsesAreScheduledFirst`. `Fills` keeps the inputs that filled
blocks have passed, and with `TransferOK` for the finished function this is
`PhisAreComplete`.

`OperandsDominate` speaks of paths and of all that a value is made from, and during the
conversion neither is complete. `TracedInv` adds to `CompileInv` that two records of it
exist, as a proof of type correctness has a typing: `roots[v]`, the parameters that the
value `v` comes from, and `live[b]`, those that block `b` may use. `ValuesRooted` and
`BlocksLead` are the local rules: the roots of an operand are roots of the expression,
a transfer uses what its block may use, and a block may use no more than each block that
leads to it and its own parameters. `Available` says it of the stack: a name in the
scope of an activation, an argument already converted and the continuation fit the block
where that activation goes on and the blocks it still waits for (`UsedAt`). The case that
makes this hard is the hazard of `to_cps.cpp:89`, a name that is given a value twice: the
second time must find the value of the first usable at the join (`GivenAt`), which holds
as no conditional is between two activations that give a name its value (`GivenOnce`).
Each action extends the two records by what it allocates. At the end any path
from the entry takes `live` along the rules (`TracedDominates`), and what a
block needs, a closure by rounds, is within its roots (`NeedsLive`, by the smallest
round that is not).

`ConversionFlows` is the refinement, step by step: `FlowKept` shows that each action of
`ToCps` is a step of `ControlFlow` or leaves its tasks and successors as they are
(`Stays`). The tasks are the current one, if the conversion still goes on in the
current block (`Open`), and then what each activation has left, from the innermost out
(`FlowTodo`). Each action is compared at the top of the stack only: what is below
contributes the same tasks before and after (`Below`), because an activation that
moves keeps its goal (`GoalMoved`). The call of a part of an expression and a value
that the caller goes on with change nothing (`PartFlows`, `ValueFlows`); a value or a call
under a trivial continuation is `Goto`, or nothing if it is the callee of a call that
writes the transfer over (`TailFlows`); a call that is not in tail position is
`CallNext` (`CallToFlows`); the branches are `IfTail` or `IfJoin` (`BranchFlows`); the
alternative and the join go on with the next task (`AlternativeFlows`, `JoinFlows`).
Two more things are needed. `ControlFlow` stops at `MaxBlocks`, here three blocks for
each node and the entry: `Budgeted` charges the blocks that each activation is still to
make (`Cost`) to the nodes of the program so far. And going on with the next task
changes no successors only if its block has none, which is known of `ControlFlow`
(`OneTransfer`), so its own invariant, `FlowInv` of `DominatorsProofs`, is part of the
induction (`Reached`).

`GoodScheduleSuffices` needs the whole of the compilation, which `ScheduleInv` puts
together. Its first part is that no block is dead (`EveryBlockIsReached`). This follows
from the refinement: in `ControlFlow` a set of blocks with the entry that transfers and
tasks do not lead out of has all blocks, and at the end no tasks are left. The second part is about
the visit (`WalkMeets`): what a block that was entered leads to is entered or on
the agenda, so at the end the blocks entered are closed under the transfers and
therefore all (`EverythingIsListed`); an expression that is listed has its operands
listed, and the schedule has them all. Then `FilledInOrder`: a parameter
has a value from the start, since its block has a predecessor (`BlocksHavePhis`, again
because no block is dead) and only parameters are among the parameters of blocks
(`KindsOK`); any other expression has one exactly when the block it is scheduled in is
filled. In a good schedule all that block `b` needs, operands of operands included, is
scheduled in dominators of `b` (`AroundHasOperands`, as domination is transitive), and
`Fillable` says that these are filled; so what `Fill` creates in `b` is what was
scheduled there. Without the hypothesis the last step fails, as `shared_values` shows.

All of these hold for every `MaxNodes`; the only other
assumption, `NodesAssumption`, is that the markers `Return`, `None` and `Null` are
values of their own, as null pointers and the return continuation are in the code.

What is model-checked only: `Terminates` and `Returns` (liveness). `ScopesProofs` also proves `SpellingKept` (renaming keeps the
spelling) and `DefsFound` (the unchecked lookup in `FunDef::check`), which have no run
of their own: `ResolvesLexically` has no step that throws, and `LinksLexically`
depends on the spellings.

`DomsStable` is worth a remark: `NoLoops` and `PostOrderDescends` make the loop
over `changed` superfluous, because every predecessor has a higher number and is
done before. The tests of `has_value()` in the loop never fail, and `SkipBlock`
happens for the entry only, which has no predecessors. They would be needed for a
language with loops.

## What is not modelled

- *Characters*: `Lexer` has one or two of each class and two keywords. The rest of the
  alphabet and of the keywords differs in spelling only. A NUL inside a file would
  be the end of the text.
- *Trees*: constructors of AST, F-AST and CPS nodes, which only store what they are
  given; the modules carry the kinds of nodes and what the passes read from them.
- *Printing*, the bytes of names and literals, and `Hash` functions.
- *LLVM and the linker*: instructions are external; a value is known by its expression
  and the block it was built in.
- *The driver*: one sequence of calls, files and exit codes; how each pass ends is the
  outcome of its module.
- *Bodies across functions*: `Definitions` has one use per body, `ToCps` and `Codegen`
  one function with bodies of every shape.
- *Memory that is never freed* (types, AST nodes, spellings): the program leaks it on
  purpose. *Thread safety*, which a comment in `name.hpp` says is missing and the
  single thread does not need.

## Plan

Done, in the order in which a wrong step would make a correct program compile
wrongly: unification, arenas, scopes, control flow and dominators; then conversion,
scheduling and generation; typing, characters and parsing; and what connects the
functions of a program. What could follow:

1. `Driver`: phases, exceptions, exit codes and the object file.
2. The bytes of literals and names that the CPS copies into its arena.
