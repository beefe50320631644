# A specification of the Codex compiler in Rust

This directory holds TLA+ modules for `showell/rust-codex-compiler`, a Rust
implementation of the Codex compiler whose output is compared, id by id, with
that of a reference compiler. The modules follow a program through all of it:
from the chapters on disk to a unit, from text to a tree, from the tree to
types, to judgements about effects, cost, ownership and proofs, and from the
checked tree through the IR passes or through the interpreter. TLC checks them
on small instances and TLAPS proves the central facts about the type and row
slots and the allocator for every instance.

Paths are relative to `src/src/` of the repository unless they say otherwise.

## 1. Inventory

A compilation is sequential. A *unit* is bundled from chapters, scoped, lexed,
parsed, desugared, checked, lowered to IR, and the IR is printed, emitted as
Roc, or interpreted. There are no threads and no I/O inside a phase; what is
hard is state that lives through a phase and is read and written by calls whose
order the compiled program decides.

| component | source | state | operations | what makes it correct |
|---|---|---|---|---|
| bundler | `bundle.rs` | what is carried and seen, complaints, the walk's stack | find a checkout, follow a cite, refuse one, carry a chapter | each chapter once, behind what it cites; no unit with a hole in it |
| scoper, resolver | `scoper.rs`, `scope.rs`, `name_rules.rs`, `symbol.rs`, `arity.rs` | names in scope on the way down a tree | mangle what collides, point mentions at it, account for every name | a name means the definition its chapter cites; binders keep their readers |
| lexer | `lexer.rs`, `token.rs`, `charcode.rs` | offset, line, column | one token at a time | every byte in one token, at its place |
| parser | `parser.rs`, `cst.rs`, `expr.rs`, `block.rs`, `pattern.rs`, `types.rs`, `typedef.rs`, `decl.rs` | a cursor, depths of parentheses and types, a tree builder | recursive descent, recovery, the loop over items | what is written is read back; a bad body costs itself only; progress |
| desugarer | `desugar.rs` and helpers | generated definitions | tree to tree | every helper referred to is generated once |
| type unifier | `check.rs` `UnifyState` | slot array `substitutions`, `next_id`, `propeq_depth`, diagnostics | `fresh`, `resolve`, `deep_resolve`, `occurs_in`, `unify`, `report_conflict` | slots form no circle and are written once; types that unified are one type; failures inside an equality are reported; recursion ends |
| effect rows | `check.rs` | `row_subst`, `next_row_id` | `fresh_row`, `resolve_row`, `unify_row`, `row_union`, `open_row_if_closed` | tails end; unified rows are one row; effects are never lost |
| schemes, inference, definition loop | `check.rs`, `builtins.rs`, `narrowing.rs`, `resolve_types.rs` | the slots, a scope stack, registration variables, open list literals | register, open, infer, judge, tie, settle, default, close | what is accepted runs, at its type, within its effects; nothing is left open |
| linearity | `linearity.rs` | none kept: a summary per expression | consumption counting over the tree | a linear value is used exactly once on every path |
| cost, punctuality | `cost.rs`, `punctual.rs` | sets of definitions, closed in rounds | judgements over checked definitions | a promised class bounds every run; punctual runs end |
| proofs | `proof_norm.rs` | the plan of the chapter's claims, fuel | normalise, instantiate, check, refuse circles | an accepted claim holds |
| effect scopes | `effect_scope.rs` | the grants of the definition being checked | a lint at every application whose callee is a name | no run touches a resource outside the scopes its signature grants |
| lowering, IR passes | `lowering.rs`, `ir.rs`, `ir_passes.rs`, `lambda_lifting.rs`, `roc_forwarders.rs` | counters for generated names, names in scope | tree to tree | a pass changes no answer; binders keep their readers; nothing is loose |
| list versions | `list_versions.rs` | per definition: versions in scope, lists stored, names minted; per chapter: the writers | rounds that find the writers, trials that find which answer their list, a rewriting per definition | a chapter answers with lists as values what it answered with lists written in place; loops stay loops |
| interpreter | `interp.rs`, `code.rs`, `heapwatch.rs` | frames, kept answers, the table of list views, memory, limits | compile to slots, a loop over tail calls, spines, builtins | slots are the names they stand for; loops run flat; views agree with their lists |
| phase allocator | `bump.rs` | two cursors, a cell, extent depth, high-water mark | allocate, restore, enter, exit | held allocations do not overlap and lie below the cursor |
| Roc emitter, tools, drivers, scripts | `roc_emit.rs`, `roc_text.rs`, `bin/`, `xref.rs` and others, `ladder/`, `tools/` | none | print and compare | formatting, input and output |

The components meet in few places. The bundler and the scoper each decide which
chapter a cite means; the scoper and the resolver each keep their own account of
what is bound. Inference calls the unifier and the row operations; the
definition loop closes over what inference left. Linearity, cost, punctuality
and proofs read what the checker resolved. Lowering re-spells what the checker
read; the passes rely on the spelling; the interpreter runs the checked tree and
is the reference for the emitters. It calls the allocator for every value.

### What is hard

Nothing runs in parallel, so no hazard here is a race. What a unit test hardly
reaches is of six kinds, and `PROJECT.json` lists each at its line:

- *state shared through a phase*: a slot, a row tail or a registration variable
  that one call writes and a much later one reads (`check.rs`);
- *recursion over a graph*: whether following slots, cites, calls or citations
  ends, and whether the check that keeps it ending looks where the followers do;
- *a summary standing for every path*: linearity, cost and list versions decide
  once what holds however the body runs;
- *fixed points*: rounds that must settle and not only stop at their bound;
- *names*: five walks re-spell, substitute or index names (scoper, lowering,
  inlining, `code.rs`, proof normaliser), and each can capture one;
- *lookahead*: the parser tells forms apart by tokens and columns it has already
  gone past.

### Correctness, by component

| component | safety | progress |
|---|---|---|
| bundler, scoper | each chapter once, in order; a refused program has no unit; names settled, binders kept | resolving ends |
| frontend | trees read back; the next item read; tokens placed | every turn takes a token |
| rows | minted ids only, no circle, unified rows resolve to one, effects never lost | - |
| unifier | no circle, written once, unified types agree, a mismatch inside an equality is reported | every call returns |
| checker | nothing left open; what is accepted runs at its type; effects covered | - |
| linearity | accepted bodies use an owner once on every path; a moved name is dead | - |
| cost, punctuality | promises hold of runs | rounds reach all; punctual runs end |
| proofs | accepted claims hold; plans mean what was claimed | - |
| lowering, passes | meaning, binders and scopes kept | - |
| interpreter | compiled bodies mean what the tree means; loops flat; views agree | writing through settles |
| list versions | same answer by value as in place; loops keep their depth | rounds settle |
| allocator | held blocks of a home are apart and below its cursor; extents keep the outer cursors | - |

## 2. Modules

| module | models | kind |
|---|---|---|
| `Reachability` | following slots: closure and acyclicity, without recursion, and what is proved of them | operators, lemmas |
| `EffectRows` | rows and the functions on them | operators |
| `RowStore` | the row slots under every order of calls | state machine |
| `BindOnce` | what a slot array promises its readers | abstract specification |
| `Unifier` | `unify` as a stack machine, one action per arm | state machine, implements `BindOnce` |
| `MCUnifier` | `UnifiedAgree`, the definition of what unified types have in common; the pools of types | reference and instance |
| `Forms` | the forms of an expression | operators |
| `Syntax` | the walks over names | operators |
| `Meaning` | what a program means: the reference every run of a program is held against | operators |
| `Types` | types, schemes, slots and unification of the checker of whole chapters | operators |
| `Inference` | `infer_row` and the definition loop | state machine |
| `Linearity` | the walks of `linearity.rs` over a body | operators |
| `Ownership` | a body judged by `Linearity` and then run | composition |
| `Judgements` | the sets of `cost.rs` and `punctual.rs` closed in rounds, the scopes of `effect_scope.rs`, then runs | composition |
| `Normalizer` | terms of claims and their normal forms | operators |
| `Proving` | plan, check and ban on circles over a chapter's claims | state machine |
| `Evaluation` | running a program over lists, in place or by value | operators |
| `Versions` | the walk of `list_versions.rs` | operators |
| `ListVersions` | rounds, trials, rewriting, and the two runs | composition |
| `Lowering` | from the checked tree to the IR tree, as far as names and shape go | operators |
| `IrPasses` | folding, inlining, lifting, pruning, forwarders | operators |
| `Machine` | `code.rs` and the evaluation loop of `interp.rs` | operators |
| `Passes` | a chapter through every pass, both ways, and run | composition |
| `ListViews` | `mod views` of `interp.rs` | state machine |
| `Bump` | the phase allocator | state machine, theorems |
| `ChapterNames` | three readings of a chapter's name | operators |
| `Bundling` | `Walk::walk` as a stack machine, with the disk around it | state machine |
| `ChapterScoper` | scoper and resolver | operators |
| `Units` | bundler, scoper and resolver one after another | composition |
| `TokenStream` | lexer, tree builder and cursor | state and operators |
| `ExprGrammar`, `ItemGrammar` | expressions, blocks, patterns; types, type definitions, declarations | operators |
| `Frontend` | the loop over items | state machine |
| `MCInference`, `MCOwnership`, `MCJudgements`, `MCProving`, `MCListVersions`, `MCPasses`, `MCUnits`, `MCFrontend` | instances | model checking |
| `RowProofs`, `UnifierProofs`, `JudgementsProofs`, `ListViewsProofs`, `BundlingProofs` | theorems | proofs |

`Unifier` and `RowStore` extend `EffectRows`, which extends `Reachability`, as
`BindOnce` and `Bundling` do: cites lead from file to file as slots do from
variable to variable. `Meaning`, `Types`, `Lowering` and `ChapterScoper` extend
`Syntax`; `Syntax` and `Judgements` extend `Forms`, which has no recursion in it.
`Inference` extends `Types` and `Meaning`: it checks a chapter and runs it. `IrPasses` extends `Lowering` and `Meaning`,
`Machine` extends `Meaning`, and `Passes` extends `IrPasses` and `Machine`.
`Units` extends `Bundling` and `ChapterScoper`, both over `ChapterNames`.
`Frontend` extends `ItemGrammar`, `ExprGrammar` and `TokenStream`, in a line.
`ListVersions` extends `Versions` and `Evaluation`; `Ownership` extends
`Linearity`; `Proving` extends `Normalizer`. `Bump`, `RowStore` and `ListViews`
are their own instances.

A walk over a tree is an operator, often a recursive one; what a phase does to
its state is an action. In `Judgements` the walks are constants and their
recursive equations assumptions, so that the prover can reason about them;
`MCJudgements` gives each its recursive definition. Definitions marked "Wrong" belong to no specification:
each is a plausible mistake in the definition after it, and with it in place the
property named for it in `PROJECT.json` fails.

## 3. How the models correspond to the code

`PROJECT.json` names, for every definition, the lines it stands for. What
follows is how the parts fit.

### Bundler, scoper, resolver (`Bundling`, `ChapterScoper`, `Units`)

A *project* is a program with the disk around it: files and their cites, the
checkout the program names and what stands beside it, the quires' registry.
`stack` is the recursion of `Walk::walk`, a frame per chapter whose cites are
being followed; one action is one way a cite is taken - carried already,
refused, or read and walked into. `carried`, `seen`, `complaints` and `parts`
are the fields of `Walk`. Comparing names is given by three functions, for
`eq_ignore_ascii_case`, `cite_key` and `slugify`. `Scoped` is `scoper::apply`
and `Reads` the resolver's account, each with its own operator of what a form
binds (`ScoperBinds`, `ResolverBinds`), because the code has two.

### Lexer and parser (`TokenStream`, `ExprGrammar`, `ItemGrammar`, `Frontend`)

A source is a sequence of symbols, a run of letters being one symbol of width 1
and every other character one of its own. A token keeps its kind, its symbols
and its place. The parser's state is a record: where it is, the nodes built so
far, depths of parentheses and types, what was reported and what was lost. A
grammar rule is a tuple, and `Step` (`ItemStep` for declarations) is the parser
after what the tuple names, so that rules recur through one recursive operator.
One action of `Frontend` is one turn of the loop in `parse`. `Shape` reads the
tree back without spaces, line breaks and prose, which is what the repository's
tests compare.

### Rows and the unifier (`EffectRows`, `RowStore`, `Unifier`)

`subst`, `rowSubst`, `nextId`, `nextRow` and `propeqDepth` are the fields of
`UnifyState`. A type is a node with a tag (the constructor of `Ty`), a number
and its subtypes; the types in play form a finite set closed under what
unification takes apart, so no action builds a type outside it but the peeling
of a type application, which is in it too. The recursion of `unify` is a stack
of frames: a frame holds the pairs its arm has still to unify, what the finished
ones answered together, and how the arm goes on after a failure. One action is
one arm of the match, a disjunct of `Arm`; where two arms of the match overlap,
the guard of the later one excludes the earlier (`Absorbed`, `OneVariable`,
`SameHead`, `Transparent`), and the last arm is guarded by `Settled`, no other
arm having taken the pair. Two ghosts say what has happened: `uncovered`, that
`linear` was stripped off a bound variable, and `unsaid`, that two rows inside an
equality were refused, which the code reports nowhere. `occurs_in`, `strip_linear` and `deep_resolve` are
folds over a type and are given as constants, `Walked`, `Bare` and `Mentions`,
whose assumptions are the functions' defining equations; TLC evaluates them on
every instance, and proofs can use them without recursion.

### Checking a chapter (`Types`, `Inference`)

The same slots again, on whole chapters: a checker state is a record threaded by
hand, as the code threads `st`. `Types` has building, binding and instantiating
types; `Inference` has `infer_row` per form of expression and, as actions, the
stretches of `check_chapter_full`: a definition is opened, its body inferred, it
is judged and tied to its signature, its literals are settled, what is left is
given a type, it is closed. Which definition is next is the chapter's order. An
accepted chapter is then run by `Meaning`, and the value's shape is compared
with the type the checker gave.

The code lets some things pass without a look - an undecided operand, a receiver
whose type is not known, a store to a field nobody declares. `Overlooked` notes
each with the forms it must come to, and the properties speak of chapters in
which everything noted came to that (`Vindicated`), in which what a signature
leaves open is still open at the end (`SignaturesOpen`), and which `Meaning`
runs as written (`PlainlyRun`: no lazy values, handlers, blocks that end in
`<-`, or types named as values). Each of these is a hole in the checker or a
limit of the model; section 5 says which.

### Linearity and ownership (`Linearity`, `Ownership`)

`Linearity` computes, for a body and a name, what `lin_of` and `consume_of`
compute: counts, captures, escapes, whether the result is the value. `Ownership`
takes a body, has it judged under one of the two rules, and then *runs* it in
the order of `interp.rs` (`eval_inner`, `eval_tail`, `apply_spine`,
`match_arms`) with `code.rs`'s treatment of statement lets, choosing branches
and arms at will. An owner is a linear value; a mention of a name it is held
by is a use, except where a value merely moves: a let of a bare name, a
closure, partial application, list or record that is kept, whose own uses are
then counted.

The walk is right about bodies it can follow, and `Followed` says which those
are, one conjunct per gap: closures elsewhere than in a let, an argument, a
list or a call's head (`ClosuresInPlace`); a value kept twice, or kept under
its own name (`KeptOnce`, `linearity.rs:370`); guards and the right operands of
short circuits, which may not run (`OptionalPartsClosed`); a let that is a
statement, whose name lives on in the statements after it (`LetsLast`).

### Cost, punctuality and scopes (`Judgements`)

`sets` holds what `cost.rs` closes: the definitions that grow, that allocate,
that are over a class and strictly over it. One action is one round over the
chapter, as many as there are definitions. Each walk over a body (`Grows`,
`Allocates`, `Overbudget`, `AppliesLocalBuiltin`, ...) is a constant, and one call
of it is a definition: `OverbudgetBy(e, ...)` says what the walk finds of `e` by
what it finds of the parts. `CostAssumption` and its like say that the walk is
that call, of every expression in play and with every argument it is called
with, and TLC evaluates them. A chapter that is not refused is run:
`stack` are the calls in progress, `done` how the run has allocated, and which
branch is taken is free. Names bound over a definition's name are outside the
properties (`Unshadowed`), as the walks do not scope either, and so is a local
named like one of the safe names that are no builtins (`SafeIsBuiltin`; section 5).
A run allocates by `++`, `&` and `::`, by builtins and by unknown functions; what
`::` allocates is kept apart (`Counted`), because no judgement looks at it (section 5).

A signature's `grants` are effects with their scopes. `OutOfScope` is the lint of
a body: an operation's literal, its fixed channel or a callee's own scopes must
be admitted by some grant of the effect. `touched` is what a run has touched; a
computed resource may be any. A resource lies in a grant when the grant is on
its way (`Within`), which is said without the code's rules. What the rows of the
checker settle is a precondition (`EffectsDeclared`; `EffectsCovered` is about
it in `Inference`), and so is what the lint does not look at or takes for
something else (`PerformersApplied`, `PortsNamed`, `OperationsKept`; section 5).

### Proofs (`Normalizer`, `Proving`)

A claim has binders, two sides and a proof. `Prepare` plans a claim: its sides
normalised, or one goal per case with its hypotheses. `Check` holds its proof to
the plan; `Rule` refuses what justifies itself. `Holds` is the claim by
evaluation, over all values up to a depth. What a proof takes for granted
(`Granted`) is left out of what is promised.

### Lowering, passes, interpreter (`Lowering`, `IrPasses`, `Machine`, `Passes`, `Meaning`)

`Passes` has an action per pass, in the order of `lower_pipeline`, and another
way through for the emitters that keep the chapter whole and call forwarders
back. `Meaning` is a plain evaluator with environments and substitution-free
binding; `Machine` is `code.rs` and the interpreter: names are hops and slots,
spines are applied at once, `and`, `or` and `&` on booleans settle on their left
operand where it decides, tail calls go back to a loop, answers of definitions
without parameters are kept and what they hold is marked. In `Meaning` an
`induction` is evaluated as the unit value, texts are sequences of numbers, a
text joined with what is shown of anything else is that and the symbol 0, and
bit operations, reals and stores to a field a record lacks are left out; the
passes meet no stores to fields at all.
`BindersKept` compares trees with names replaced by how far away they are bound.

### List versions (`Evaluation`, `Versions`, `ListVersions`)

`Evaluation` runs the lowered expressions as the interpreter does, once with
lists that names share and `list-set-at` writes, once with lists that are
values, which is what the emitted Roc has. `Versions` is the pass's walk with
its state threaded by hand: `cur`, `root`, `bound`, `stored` are the fields of
`Env`, `pre` the hoisted lets, `stale` is `violation`, and an error is a reason
kept in `why`. `ListVersions` is `apply`: an action for a round of the least
fixed point, the choice of the assumed writers, a trial of the greatest, the
rewriting, and the two runs. `Followed` again lists the gaps, each shown by a
chapter on which the two runs differ: writes in an `act` statement and in the
right operand of a short circuit; a writer's bare name as a value
(`QuietStatements`, `QuietShortcuts`, `WritersCalled`); a closure that reads a list
(`NothingCaptured`); a list stored inside an arm (`StoredOutside`); a list whose
origin the text does not tell (`OriginsKnown`); one list given twice to one call
(`GivenApart`); a definition given too few arguments.

### List views (`ListViews`)

A list is a cell at an address; the program holds some; `up` and `down` are the
two halves of the side table, the parent held strongly and the child weakly. A
cell nobody refers to goes, and its address may be handed out again, which is
when a stale entry would be taken for a fresh one. A list the cache holds is copied
before it grows (`Interp::cow`): which lists those are is `Meaning`'s account, and
here any may be (`GrowCopy`). A store is written through link by link
(`write_through`): `todo` is what is still to be handed on.

### The allocator (`Bump`)

One action per builtin that reaches `Bump` in `interp.rs`. `blocks` is a ghost:
what was handed out and not given back by a restore. Words are two bytes.

## 4. Runs

| run | bounds | states | what it shows |
|---|---|---|---|
| `rows` | 2 labels, 3 rows | 401 | two rows unify and a third can be the tail between them: every arm of `unify_row` and `row_union` |
| `unifier` | 3 variables, 4 rows, 2 of them per call, calls 5 deep; six pools of types | 172,441 | a circle needs two variables, overtaking a binding a third; each pool is closed over one family of arms, and in one of them bound variables are met under `linear` |
| `definitions` | 5,913 chapters, integers 0 to 9 | 56,139 | every form of expression over a few values and helpers under five signatures and grounds; 345 are accepted and run, 63 of them print |
| `ownership` | 13,568 bodies under both rules, 3 owners made, 2 runs of a closure | 883,510 | bodies nested two and three deep, run along every path |
| `judgements` | 21,846 chapters of up to four definitions | 125,716 | each promise against each way to break it through a call; lists built with `::`; chains in every order, which need all the rounds; three kinds of scopes, two calls deep |
| `proving` | 1,788 theories, fuel 12, values 2 deep, names tried to 8 | 14,904 | true and false claims, every proof of a few steps, citations in circles |
| `passes` | 4,206 chapters; suffixes and lambdas to 9, leaves of 12 nodes, evaluations 60 deep | 42,060 | helpers called under every kind of binder; names that collide; operators whose right operand must not run; loops of ten turns |
| `list_versions` | 534 chapters, arguments 0 to 2 | 3,801 | 206 chapters followed and rewritten, 190 with a writer; loops of length 0, 1 and 2 |
| `list_views` | 3 addresses, lists of 3, 2 elements stored, pruning from one link on | 483,972 | a list, its tail and the tail's tail, with a new element stored in any of them and written through to the end; an address handed out again while a stale link names it |
| `units` | 7,139 programs with their disk | 36,308 | circles of cites, chapters the program brings, names in another case, broken registries, collisions under every binder |
| `frontend` | 14,050 texts | 78,743 | what a grammar writes of every form in every place, loosely, tightly, over lines and with prose between; bodies with something left in them; any three symbols after a definition began |
| `bump` | words of 2, sizes 1 and 3, addresses 7, 8 and 11, depth 2, addresses to 14 | 45,368 | every order of allocation, restore, deck move and extents two deep |

The bounds are small because what goes wrong is local: two names that collide,
one cite that comes back, one tail overtaken by another. Where a bound of the
code is a number, the instance has a smaller one and reaches it (`MinPrune`,
`LeafFuel`, `MaxDepth`) or a larger one and never does (`Fuel`, `DepthLimit`,
`MaxSuffix`). In `unifier` no call goes deeper than the stack allows, or
it would not return. Most runs are one path per input: what they explore is the inputs.

Deadlock is not checked in any run: a phase that is over, or a model that has
used up its bounds, stops.

### What is claimed

- **Rows.** `RowsAcyclic`: tails form no circle. `UnifiedRowsAgree`: rows that
  unified resolve to one row, and a union carries both rows' effects.
  `RowsOnlyGrow`: no later call loses an effect.
- **Unifier.** `NoWalkedCycle`: no circle along what the occurs check walks.
  `UnifiedAgree`: what unified is one type, by a definition that does not
  mention how. `ProofMismatchReported`: a mismatch inside an equality is
  reported. `BindsOnce`: `Unifier` implements `BindOnce`. `CallsReturn`. All of
  them but the one on mismatches say nothing of what follows once a bound variable
  has been met under `linear` (section 5); that one says nothing once rows inside
  an equality were refused.
- **Checker.** `NothingLeftOpen`: literals stay settled, and a closed definition
  leaves open only what its type binds. `CheckedRunsWell`: an accepted chapter
  computes, and each value has the type it was given. `EffectsCovered`: what
  prints is declared, or grounded, to print.
- **Ownership.** `UsedExactlyOnce`: on every path of an accepted body each
  linear owner is used once, and a mutable one handed on at most once.
  `MovedStaysAway`: a name whose value has moved is not mentioned.
- **Judgements.** `RoundsReachAll`: the rounds close the sets. `PromisesKept`:
  no run allocates beyond the class declared, lists built with `::` apart, or touches a path, an authority or
  a channel outside the scopes granted. `PunctualRunsEnd`.
- **Proofs.** `ProvedHolds`: an accepted claim holds of all values.
  `PlannedMeansSame`: the plan's goals mean what the claim means.
- **Passes.** `MeaningKept`: every stage prints and answers the same.
  `BindersKept`: re-spelled readers read the binder they read. `NothingLoose`:
  every name is bound, definitions are distinct, no lambda is left.
- **Interpreter.** `CompiledAgrees`: slots, spines and kept answers compute what
  the tree means. `LoopsRunFlat`: tail calls do not nest.
- **List versions.** `SameAnswer`, `RoundsSettle`, `LoopsStay`.
- **List views.** `TableAgrees`: the two halves of the table name each other.
  `WindowsAgree`: a view and its list agree. `WritesSettle`.
- **Units.** `UnitIsWhole`: every file is in a unit once, and nothing is left to
  cite. `UnitInOrder`: of a unit that is not broken, whose files declare the
  chapters they are named for, every chapter stands behind what it cites, and
  nothing is in it but what the program's cites lead to. `NamesSettled`: every
  mention means the definition its chapter cites, and the meaning it had before
  mangling. `ResolvingEnds`.
- **Frontend.** `TreesRead`: what is written is read back, nothing reported or
  lost. `NextItemRead`: what is left in a body stays in its definition and the
  next item is read. `PlacesRight`: tokens are where their symbols are and leave
  out none. `EachTurnTakes`: each turn of the loop takes a token.
- **Allocator.** `HomesDisjoint`, `BelowCursor`, `ExtentsKeepCursors`.

### Fairness

Three runs state some, each of a call in progress, which the code takes by
itself because nothing else runs while it is on the stack: the steps of `unify`
(`PoolSpec`), the steps of resolving a program (`UnitSpec`), and the loop that
writes a store through its links (`ListViews!Spec`). None is put on what a
program asks for. That the parser ends is stated as an action property instead:
each turn of its loop takes a token, and there are finitely many.

## 5. Divergences

Places where the code does something else than it, or the language it
implements, promises. Each was met while modelling. The properties above are
stated so that they hold; where a precondition does that, dropping it makes the
run fail on the chapter described.

**Unifier and checker (`check.rs`)**

- `strip_linear` runs after `resolve` and what it uncovers is not resolved
  (925): a bound variable under `linear` is taken for an unbound one and bound
  again, so a parameter `a` of `f : a -> linear a -> a` may be a text and then an
  integer unnoticed. With `f : a -> linear a -> List a`, `let g = f "x" in g (g "y")`
  closes a circle: what decided the variable is bound to a type over it, and
  reading that type ends only at its budget. Every property of the unifier but
  `ProofMismatchReported` speaks of what comes before (`uncovered`,
  `Uncovering`).
- Two rows with one open tail and different labels are refused without a report
  (552), inside an equality too, where "every mismatch is the program's" (239):
  the ghost `unsaid`.
- `occurs_in` (729) does not enter a named type's arguments and `deep_resolve`
  does: a variable bound to a named type over itself sends it round to its
  budget.
- Defaulting (2428) gives a type to variables a later definition still holds.
- Whether a body fixed a variable of its signature is judged when the body is
  done (2863), and a definition that declares nothing may decide it afterwards.
- A signature's row variables are not judged at all (2829): with
  `calm : (Text -> [e] Nothing) -> Text -> Nothing`, `calm f t = f t` performs
  what it does not declare.
- Arithmetic, ordering and joining accept operands that are undecided, and
  arithmetic refuses only texts, booleans and characters. A field of an
  undecided receiver mints a variable; a store to a field nobody declares is not
  reported; a receiver of a parametrised record's own type gives the field's
  type unsubstituted.
- The effects of a field's receiver are dropped (3887, 3959), as are those of a
  body under a timeout (4052).
- A match on an undecided or merely named type is not looked at, a guarded
  catch-all suppresses the report on missing arms, and a guard need not be
  Boolean.
- A type's name is usable as a value (`register_ctors` binds it).
- Substituting a row does not enter a named type's arguments or another row
  quantifier.

**Linearity and cost**

- A let among statements binds for the statements after it and the walk stops at
  the let's body (`linearity.rs` 384); a kept value's own uses are reduced by
  one and added to those of the name that keeps it (138). Both accept bodies
  that use an owner twice or never.
- A parameter passed on as itself and something, by `&` on booleans, is taken for
  a list or text that grows (`cost.rs` 126), where the walk for allocation finds
  that nothing is allocated: the classes are out of order there.
- `text-at`, `array-at` and `array-length` count as safe (`cost.rs` 30 to 32) and
  are no builtins (`builtins.rs`). A local with one of these names may be applied,
  because CDX3011 is about builtins, and is taken to allocate nothing: a function
  received as `text-at` and applied passes under `bounded none`, whatever it
  does. `SafeIsBuiltin` excludes it.
- `::` builds a list (`interp.rs` 2349), and neither `binop_allocates`
  (`cost.rs` 172) nor `no_alloc` (`punctual.rs` 140) counts it, though `cost.rs:10`
  has the inference answer "whether it ALLOCATES at all": a definition that builds
  a list with `::` passes under `bounded none` and in a punctual body. The
  properties speak of what is allocated otherwise (`Counted`).

**Proofs (`proof_norm.rs`)**

- A case's pattern names are substituted into the claim as they are (843). With
  `m` and `n` in the claim, induction on `n` and a case `S m`, the goal is about
  `m` twice: `up-to n (S m) = up-to n n` is accepted, and is false. Line 1177 of
  the same file says "Recursion in a proof is only sound through structural
  induction". `PatternsApart` excludes it.
- `instantiate_claim` (917) replaces binders one after the other: an argument
  that mentions a later binder has it replaced in turn. What is cited is then
  another instance than the one written, which still holds.
- A claim about all values that is not proved by induction is an axiom, and a
  claim named without arguments proves what its type is (`check.rs` 1098).
- The first constructor arm that fits is taken, past a variable arm before it
  (572); a let's body is not renamed apart (516), and lets are substituted all
  at once (249).

**Lowering, passes, interpreter**

- The mention of a definition without parameters counts as a simple argument
  (`ir_passes.rs` 250): if it prints, a leaf that mentions its parameter twice
  prints twice. `ArgumentsQuiet` excludes it.
- A lambda with a parameter named twice is absorbed by a definition, and inlining
  takes the first of the two (`ir_passes.rs` 330).
- A `try` lowers its regions without marking and releasing (`lowering.rs` 807),
  and a handler's clause never binds its parameters in the scope (774).
- `ir.rs:31` says lambdas are numbered on the tree before pruning;
  `lambda_lifting.rs:33` says there is no such pass, which is how it is.
- `mark_cached` (`interp.rs` 3846) does not enter functions: what a kept
  function holds can be pushed onto by one reader and seen by the next, against
  the comment near line 1694. `Interpreted` excludes it.
- Views on either side of a list that grew no longer share a store, as they
  would on bare metal (`interp.rs` near 2610).
- `Bump::hwm` is called the furthest the active cursor ever reached, but `enter`
  loads a cursor from the deck cell without raising it (`bump.rs` 151).

**Bundler (`bundle.rs`)**

- Lines 30 to 34 say "A cite is present only under its own quire. The same chapter
  name carried under another prefix, or plain, is a CLASH and the unit is
  refused". `Carried::of` (448) answers such a cite `Present` when there is one
  chapter of the name, as its own comment (420) says, and refuses only when there
  are several. `Presence` is the code's, and `UnitIsWhole` and `UnitInOrder` count
  such a cite as answered: by the rule at line 30 the units would be refused.
- Lines 62 to 65 say "A complaint is not a failure. Every one of these describes a
  unit that got built; refusing on them would only mean the caller reaches for the
  other bundler". `load` refuses a unit with a broken complaint - a quire that is
  not registered, a chapter that is not there (`is_broken`, `RefuseUnit`). The
  properties follow the code.

**List versions (`list_versions.rs`)**

- Lines 22 to 25 say that a read of the list among the same call's earlier arguments
  "sees the written version, where Codex's left-to-right evaluation saw the old
  one", and `docs/list-versions.md:27` "Later reads of the list, under any name bound
  to it, read the version". `references_last` (635) gives the written version to a
  bare name only: a read such as `list-at x 0` "was evaluated in its turn and keeps
  the version it saw". `ReferencesLast` is the code's and `SameAnswer` holds of it;
  the module comment is out of date, and by it the run would fail.
- A write in a statement of an `act` (770) is not handed back; with the rest of
  `Followed`, section 3.
- The comment at line 64 says the rounds only grow, but a definition refused in
  one round is no writer in the next: with
  `f (xs) = let h = g 0 in list-set-at xs 0 1` and `g (n) (xs) = f xs` the
  writers go round with period four up to the bound. `RoundsSettle` speaks of
  chapters in which every definition is given all its arguments.

**Effect scopes (`effect_scope.rs`)**

- A callee's scope that names no port is admitted by a grant that names one
  (`authority_admits`, 116), and the callee then reaches any port, though the
  report at line 241 says "A scope may narrow, never widen": the rule that a
  name without a port never reaches one is about resources. `PortsNamed`.
- Only applications by name are looked at: a definition without parameters that
  is mentioned, or an operation kept under another name, is not.
  `PerformersApplied`.
- A definition with the name of an operation is judged as the operation (189).
  `OperationsKept`.

**Lexer and parser**

- After a backslash at the end of a line or of the file, offset, line and column
  no longer agree (`scan_string_end`). `PlacesRight` leaves such texts out.
- `1.a` lexes as a number with its dot, though `lexer.rs:573` says only `1.5`
  does.
- An effect's operations take the annotation of the next definition for one of
  their own (`decl.rs` 16); an instance absorbs a following definition without an
  annotation and takes the next name; a handler's clauses absorb `name (x) = ..`.
- Inside parentheses, stacked statements of a `let` or an `act` are applied to
  each other, because the depth is not reset; after `lazy` the next line is an
  argument (`expr.rs` 168 and 217).
- An operator at the end of a body takes the next item's name for its operand.
- What follows a type's head may be a line break, taken as a type;
  `unit T = ..` reads `unit` as the name (`typedef.rs` 47).
- A missing field name is reported twice; a byte that cannot be
  read inside a type is reported under code 0, where `code_for` gives 1000.

## 6. Proofs

All theorems are proved for every value of the constants that meets the named
assumptions, and every one is reached from an inductive invariant.

**Rows** (`RowProofs`). `RowInv` - open tails lead to
minted ids only, and the tails are acyclic - is inductive: binding an unbound id
to a row whose tail does not reach it keeps reachability acyclic
(`Reachability`). It gives `RowsTyped`, `RowsOnlyMinted` and
`RowChainsEnd`, which is the run's `RowsAcyclic`. The other two theorems rest on
how *every* row reads after a binding, not only the two that are unified: a row
that ended in the bound id now reads as that row with the labels it was bound to
added, and the others read as before (`BindReads`). So rows that were one stay
one (`StillOne`), an accepted pair is one row after both bindings
(`UnifyRowReads`, `UnifiedRowsAgree`), and no step takes a label away
(`RowsOnlyGrow`).

**Abstract slots** (`BindOnce`, with its theorems). Slots written once, and only
with contents that do not lead back, can always be read to an end.

**Unifier** (`UnifierProofs`). Five arguments, each on top of the one before.

- *Slots.* What holds of the slots whatever is unified is `Chains`: a variable
  passed on to a variable is passed on to a lower one, and no slot holds a
  `linear`. So resolving ends always (`ResolveEnds`), and what is on the stack
  and in the slots are types in play (`SlotsOK`). That a binding closes no circle
  needs besides that a side that is a variable is unbound (`SidesUnbound`). That
  is so in every step that uncovers no bound variable (`~Uncovering`), and such a
  step leaves the slots or writes one unbound slot that the type it is given does
  not walk to (`StepWrites`). From it follow `SubstitutionAcyclic` (the run's
  `NoWalkedCycle`), `UnifierBindsOnce` (the run's `BindsOnce`: the detailed
  unifier implements `BindOnce`), and `DecidedStays`: only a pair with the bound
  variable itself under `linear` changes what it is bound to.
- *Mismatches.* `EqInv`: `propeqDepth` is the number of equalities on the stack,
  and when a call inside one has failed, a code was left or rows were refused
  unreported (`FailuresTold`). It gives `MismatchesReported`.
- *Types of the tables and rows.* `UnifierInv` adds that every row in a slot, in
  a row slot or in a call in progress has been minted (`RowsInv`), so the tail
  that `unify_row` mints next is in no row yet. It gives `UnifierTyped` and
  `RowsResolve`: the occurs check of rows is sound with rows inside types too.
- *Accepted types are one.* `UnifiedAreOne` says that a call about to answer
  true has made one type of its two. `AgreeInv` speaks of every call in
  progress: there is a relation on types, closed under "these two have the same
  head, and their parts are related or still to come", that holds the two types
  of each call in which nothing failed. A binding keeps such a relation because
  what it binds is resolved first, and a row binding because of `StillOne`. It must
  be said of the whole stack: while a part of a call is unified, slots are
  written that the parts already accepted read.
- *For good.* `OneForever`: types that are one under the slots stay one through
  every later step that uncovers no bound variable, whether it succeeds or fails.
  No such step undoes a binding, so this is what makes a type that one definition was given valid for the next.

`UnifiedAreOne` is about heads and rows, so it has no depth; the run's
`UnifiedAgree` compares the two types as trees, flattened and cut at a depth, and
is only model-checked.

None of them assumes anything of where `linear` may stand. `SlotsTyped`,
`MismatchesReported`, `UnifierTyped` and `RowsResolve` hold of every step;
the other five hold up to a step that uncovers a bound variable, or of every
other step, and the example in section 5 shows what may come of such a step.
`BareAssumption`, `WalkedAssumption` and `MentionsAssumption` say of the
constants what a pool of types makes them: what a type without its
`linear`s is, and what variables and rows are in it.

**Judgements** (`JudgementsProofs`). For any chapters, builtins, classes and
scopes, over any expressions of which none is a part of itself
(`ExprAssumption`). The prover has no induction over trees; what a walk finds is
shown by looking at a smallest expression of which it would not be so
(`Smallest`, `NoneLeast`), with the walk's equation as an assumption.

- *Rounds.* A body that mentions something over its budget is over its budget,
  and one that is over it is so of itself or by what it mentions (`OverMentions`,
  `OverOnly`): a round of `over_set`, which walks the bodies again, adds what a
  round of `close` over mentions would (`GrownIs`). `RoundsInv`: each set lies
  between its seeds and all that leads to them, and is closed or has more
  members than rounds have gone. So it is closed after as many rounds as there
  are definitions: `RoundsReach`, the run's `RoundsReachAll`.
- *Cost.* What a body does, `Acts`, is taken apart along the spine of an
  application (`ActsSplit`), where no local that is a builtin too is applied
  (`Sound`). A body that fits a class does nothing of itself beyond it
  (`FitsKeeps`), and calls nothing that is over it, because the sets are closed.
  `CostInv`: no definition on the stack is over the class of the first.
- *Scopes.* What a scope admits lies in it and lying in is transitive
  (`AdmitsWithin`, `WithinTransitive`), hosts with the port left open apart. So
  what a callee's grants cover its caller's cover (`CallOuter`), and every
  definition on the stack is covered by the first (`ScopeInv`). With `CostInv`:
  `Promised`, the run's `PromisesKept`.
- *Punctual runs.* A search of `check-rt-cycles` that answers no has found a set
  closed under calls that holds what it began with and not its target
  (`SearchAvoids`); so no definition that passed is ahead of itself along calls
  (`NotAhead`). `PunctualInv`: what is deeper in the stack is ahead of what called
  it, so no name is on it twice, and there are no more than punctual definitions.
  `PunctualEnds`, the run's `PunctualRunsEnd`.

`BuiltinsAssumption` says of the tables that the safe builtins are of class
`none`, and that no operator copies but `++`, `&` and `::`. `Promised` and
`PunctualEnds` are about what is counted: what `::` builds is what the judgements
let pass (section 5), and the theorems say that nothing else is.
`EffectsAssumption` says that an operation on the network is given a URL with a
host.

**Allocator** (`Bump`). The type invariant; that held blocks lie below
their home's cursor, because a restore gives back all above it; from both, that
blocks of a home are disjoint, because a new one begins at the cursor; and
`CursorsKept`, that while an extent is open the bivy stands still and nesting
moves no deck cursor.

**List views** (`ListViewsProofs`). `TablesAgree`: the two halves of the table
are inverse, because a view is only linked at an address that neither half
knows, and a pruning takes it from both. `ViewsShowLists` is the longest
invariant of the project. A list and its views can be laid out in one memory, as
they lie on bare metal; a store is then to one address, and what the worklist of
`write_through` still has to do is exactly what lies between the lists it has reached
and the others. Between stores that is nothing, which is `WindowsAgree`, for any
set of addresses and lengths up to `MaxLen` (`BoundAssumption`).

**Bundler** (`BundlingProofs`). For any programs, disks and readings of names in
which a cite has a quire and a name (`ProjectsAssumption`) and a key ignores
more than case does (`NamesAssumption`). The loops of the model, `Missing` and
`FlattenSeq`, are recursive functions; what they compute is read off the record
of their rounds, by descent to a least round (`LeastNat`, `Descent`). The walk
keeps three invariants.

- `ReadOnce`: a file that was seen answers a cite of its name, so no cite that is
  missing leads to it. Hence `FilesReadOnce`, and that the test of `Walk::seen` in
  the code never finds a file there.
- `NothingLost`: what is carried, and what the unit has or will have when the
  frames are done, answer for each other; and each cite of a source being
  followed is answered, or still to come, or was complained of. At the end
  nothing is still to come: `LoadedWhole`, the run's `UnitIsWhole`. `Enter` is the
  hard step: it puts up to two headers on the list, and no other cite may become
  ambiguous by that.
- `InOrder`: the frames are a path of cites, what was seen is in the unit or on
  that path, and everything a file in the unit cites was seen. So what is not
  ahead of a chapter leads to it, and what was seen is the least set closed under
  cites around what the program cites (`ReachLeast`). It gives `UnitOrdered`, the
  run's `UnitInOrder`.

`UnitInOrder` holds of units that are not broken, whose files declare the chapters
they are named for. Without the second a file is carried under two names and
answers cites that do not lead to it; without the first a cite refused in one
spelling of its quire is answered later in another, behind the chapter that
asked. Both happen in the code, and the run has programs that show each.

**Model-checked only.** Liveness (`CallsReturn`, `ResolvingEnds`,
`WritesSettle`) is out of the prover's reach. What else is over trees - the checker,
the walks of `linearity.rs` and `list_versions.rs`, the passes, the proofs' normal
forms, the grammar - is written with recursive operators, which the prover cannot
reason about; so is `UnifiedAgree`, and so is `NamesSettled`, which is over the
bodies of definitions. The way of `Judgements`, equations in the place of
recursion, is open to them.

## 7. Not modelled

- *Effect scopes* (`effect_scope.rs`): which effects of `opening` the manifest's
  vocabulary has, a lookup in a list of names; functions received as values are
  applied in runs, but touch nothing.
- *Handlers* are inferred in `Inference` but not run.
- *The desugarer* (`desugar.rs`, `eq_helpers.rs`, `classes.rs`,
  `dict_projections.rs`, `preamble.rs`): the models of what comes after begin
  with its result. Class dictionaries are left out of the checker with it.
- *The Roc emitter* (`roc_emit.rs`, `roc_text.rs`): text. What its lists mean is
  in `Evaluation`.
- *In the checker*: reals, units, vectors, integer ranges and their lints,
  linear wrappers, timeouts and `try`, cons, what is recorded per expression for
  lowering, the limit of twenty reports.
- *In linearity*: tuples with a linear component; sanctioning by syntax.
- *In the interpreter*: the step limit, flat memory beyond one byte, reals, bit
  operations, most builtins, records in compiled bodies.
- *In the frontend*: letters of several bytes, tabs, what an escape stands for,
  the kinds of prose, pagination, proof and induction syntax.
- *In proofs*: the grammar of proof terms and the reports.
- *In lowering*: types in the lowered tree, the dispatch of class members,
  printing.
- *Analysis tools, drivers, gates, scripts*: reports, input and output.

## 8. Plan

1. *Proofs*: `ProvedHolds` and that the turns of `Frontend` take tokens, each split
   from what is recursive about it as `Judgements` is.
2. *Refinement*: `Bundling` as an abstract depth-first walk.
3. *Desugarer*: the closure of instances and equality helpers, each generated
   once.
4. *Handlers* run in `Meaning`.
5. *Checker*: ranges and their lints; class dictionaries.
