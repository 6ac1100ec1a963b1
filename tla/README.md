# Verification of the tiny FHE DSL

TLA+ models of the compiler pipeline in this repository, model-checked with TLC
on small instances, and theorems about them checked by TLAPS for every instance.

## The system

The library is sequential Rust: a program builds arithmetic expressions in a
*context*, *compiles* some of them into a *circuit* of gates, runs *passes* that
rewrite the circuit, and *evaluates* it with a backend. There are no threads and
nothing is persisted. What is hard is the order of things: worklists, hash maps
that are read after what they describe has changed, indices that move between
arenas, reference counts kept as sets, fixpoint loops, and machine arithmetic
that has to agree with arithmetic modulo q.

| Component | State | Operations | Interacts with |
|---|---|---|---|
| `dsl::ctx` expression context | arena of expressions, interner, mode, q | `input`, `constant`, `+ - *` (each: fold, then intern) | gives handles to the program; read by the compiler |
| `dsl::compile` circuit compiler | stack, node at hand, gates, inputs, outputs, map from expressions to gates | `compile`, `compile_many` | reads a context, makes a circuit |
| `dsl::compilation_mode` | a bit mask | conversions, set operations | read by the compiler |
| `ir` circuit | gates, inputs, outputs, q | equality of gates up to operand order | the value all passes and backends exchange |
| `passes::reassociate` | gates, usages, killing list, dead set, `seen`, operation and constant gates | rewrite a root, kill, next round | `liveness`, `folding`, `new_circuit_from` |
| `passes::rebalance` | ranks, old-to-new map, rebalanced arena, roots, usages | flatten, rebuild, balance | `folding`, `new_circuit_from` |
| `passes::new_circuit_from` | the new arena, inputs, outputs | transfer a gate, rename it in its users | called by both passes |
| `passes::depth`, `analysis` | none | queries | read a circuit |
| `backend` | q, noise tracker | `eval`, `eval_outputs`, `set_plain_text_modulus` | reads a circuit |

What makes each component correct, and where it is hard, is listed line by line
under `hazards` in `PROJECT.json`.

Correctness, component by component:

- **context**: hash-consing is exact (no duplicates up to the operand order of
  `+` and `*`, none merged that differ), folding is complete and computes modulo
  q.
- **compiler**: exactly the live expressions are lowered, once each, in
  topological order, outputs in the order requested, a refusal exactly when the
  mode demands one, and the loop ends.
- **reassociate**: usages say what the gates say, nothing an output needs is
  killed, every rewrite removes an operation, order and values are kept, the
  rounds end.
- **new_circuit_from**: the rebuilt circuit is the old one renamed, outputs and
  inputs in order.
- **rebalance**: values kept, trees balanced, shared gates built once, outputs found
  again.
- **depth, analysis**: the depths are those of the heaviest paths.
- **modes**: a compilation is refused for exactly the kinds that were asked for.
- **backends**: evaluation is the value modulo the circuit's q, or a stated error;
  nothing of one call leaks into the next.
- **the whole**: what comes back at a position is the value of the expression
  that was requested there.

## Modules

| Module | Models | Builds on |
|---|---|---|
| `Words` | plaintext words, operations modulo q and as the machine does them | |
| `Dag` | expressions and gates, equality up to operand order, topological order, reachability, values | `Words` |
| `Context` | `dsl::ctx` with `folding`, `hash` and the interner | `Dag` |
| `LiveLowering` | what a compilation promises, with no traversal in it | `Dag` |
| `Compiler` | `dsl::compile`, iteration by iteration, on top of a growing context | `Context`, `LiveLowering` |
| `Strictness` | `dsl::compilation_mode` and how `apply_mode` reads a mode | |
| `Circuit` | circuits as constants for the passes and backends | `Dag` |
| `Reassociate` | the rounds of `passes::reassociate` with `liveness` and `folding` | `Circuit` |
| `NewCircuit` | `passes::new_circuit_from` | `Circuit` |
| `ReassociatePass` | `reuse_driven_reassociate` as it is called: the rounds, then compaction | `Reassociate`, `NewCircuit` |
| `Depth` | `passes::depth` and `analyse`, as functions, and a definition of depth by paths | `Circuit` |
| `Rebalance` | `passes::rebalance`, then compaction | `Depth`, `NewCircuit` |
| `Backend` | both backends and both ways to evaluate | `Depth` |
| `Pipeline` | a program from expressions to results | `Compiler`, `Backend` |
| `CircuitFamilies` | families of circuits for the instances | `Circuit` |
| `MC...` | the instances TLC checks | |
| `DagProofs` | lemmas on nodes, arenas, values and arithmetic | `Dag` |
| `CompilerProofs`, `StrictnessProofs`, `NewCircuitProofs`, `BackendProofs`, `PipelineProofs`, `RebalanceProofs`, `ReassociateProofs` | the theorems and their proofs; those on `Context` and the refinement of `LiveLowering` are in `CompilerProofs` | the modules they name, `DagProofs` |

An arena is a sequence; index k of `la_arena` is position k + 1, and 0 stands for
no index. Expressions and gates have the same shape and the same notion of
equality in the code (`dsl/src/hash.rs`, `ir/src/hash.rs`), so both are `Node`s;
`Canonical` is their hash key, and a map keyed by expressions or gates is a
function on canonical nodes.

Operators marked as *slips* (`FoldSaturates`, `SeveredAlone`, ...) are no part
of a specification: each is a definition as a plausible bug would have it, and
`mutants` in `PROJECT.json` pairs it with the property that tells the two apart.

### Context

`mode`, `arena` and `interner` are the fields of `Context` (the modulus is the
constant `Modulus`); `returned` is the handle of the last call. `Input`,
`Constant` and `Combine` are the calls of a `ContextHandle` and of the operators
on `ExprHandle`; each is the whole of `append`: folding, then interning.
`CombinePanics` is arithmetic overflow in a build that checks it; with
`OverflowChecks = FALSE` the same operation wraps. Constants are not reduced when
written, as in the code, and are reduced only when folded.

### Compiler

`current`, `dfs_stack`, `gates`, `inputs`, `lowered`, `output_exprs` are
`current_node`, the stack, the arena of gates, the list of inputs,
`expr_idx_to_gate_idx` and the outputs met so far. Each action of `Step` is one
path through the loop of `build_from`: `SkipLowered` (153), `LowerInput` (156),
`LowerConst` (162), `LowerOp` (200), `DescendLeft/Right/Both` (183-198), `Pop` and
`NextRoot` (215-229), and `Accept` or `Refuse` for `apply_mode` and the result.
`CompileNothing` is `compile_many(&[])`, which panics. Between compilations
`Build` goes on with the context, and `Release` drops a result: each call has its
own `CircuitCompiler`, while the context, and any expression abandoned in it,
stays.

A mode is the set of node kinds it is strict on: `{}` is Loose, all kinds is
StrictAll.

### Reassociate

The state is `ReassociationPass` (`gates`, `dead`, `seen`, `operation_gates`,
`constant_gates`), `LivenessWRTUsage` (`usages`, `to_kill`), the loop's index and
flag. `Skip`, `Reuse` and `FoldPair` are one iteration over an operation:
`Rewrites` is `extract_reassociation_candidates`, the test of usages and
`form_a_gate`; `Accept` is `accept_reassociation`. The recursive
`propagated_decrement` is the least set of links that severing some of them
brings down (`Severed`): the recursion only removes, so the order of its calls
does not matter. It never comes back to the root, because a reused gate has the operands
the root's inner operation and leaf already had, and no rewrite makes a cycle.
`Kill` and `KillAnother` take one gate of the killing list, a hash
set, in any order. `KillReceivedTombstone` has no action: `NoTombstoneToKill`
says that its condition never holds. `FoldPanics` is overflow in
`passes/src/folding.rs` in a build that checks it.

A gate that has let go of its operands does not get them back when it is connected again.
So usages are not right for ever: `UsagesStayExact` says of every single step that right
usages stay right, provided the rewrite is `Careful`: its root is used, and an operation
that the root is connected to has, throughout, another user than the root.
Circuits with careless rewrites are among the known divergences below.

### Strictness

`strictness` is a `Strictness`, the `u8` as the set of its one bits; `FromKinds`,
`Plus`, `Minus` and `Negate` are the conversions and operators a program has,
`With`, `Into` and the three constructors make a mode, `ApplyMode` judges any
leftover. `asked` and `meant` are ghosts: the kinds the program's expression
stands for. Complementing sets the five bits without a meaning, which then travel.
`ModeFrom` and `FromMode` are the two `From` implementations.

### NewCircuit

`handed` is what a pass calls `new_circuit_from` with, the other variables are its
locals. An action of `RebuildStep` is one iteration over the usages: `SkipUnused`,
`Keep` (the index stays), `Move` (the index changes and the users are told,
`Renamed` rewriting the left operand or else the right one), `MoveFails`
(`PropagationError`), `Answer`. `Proper` is what a pass is to hand over, and
`HandoverAssumption` supposes it of `Handovers`. The two passes extend `NewCircuit` with
no `Handovers` of their own, and call it with whatever they have. `SquaresStay` is the part
of `Proper` that neither pass sees to: a gate that stands on both sides of an operation keeps
its index. `OutputsAndInputsKept` includes that outputs and inputs come in ascending order,
so that a circuit whose outputs ascend keeps each output at its position.

### ReassociatePass

`Reassociating` is a step of `Reassociate`; when the rounds have ended,
`Rebuilding` hands gates and usages to `NewCircuit` and runs it.
`LeavesProper` says that this is a proper handover, the condition of the theorems on
`NewCircuit`, and that the usages are right. It and the properties of the optimised circuit are stated for executions in
which no rewrite reuses a gate after its root (`StaysOrdered`); the others are among the
known divergences below. `MCReassociate` takes the whole pass, so that one run checks the
rounds and the compaction.

### Rebalance

`roots`, `ranks`, `map` (`old_to_new_gate_idx_map`), `index`, `rebalanced` and
`usages` are the fields of `RebalancePass`; `balancing` is the stack of calls of
`balance`, which `flatten` enters in the middle of its work when it meets a root.
`NextRoot` takes the roots by precedence, `BalanceLeaf` is the nested call,
`Flatten` the rest of `flatten`, `Combine` a turn of the loop of `rebuild` with
folding and `UsedBy`, `FinishRoot` the end of `balance`, `CombinePanics` and
`FinishPanics` the two accesses past the end of `usages` and overflow in folding,
`CallNewCircuit` and `Rebuilding` the compaction. `prio_queue` leaves open which of
equal elements it gives first: `LowestPair` is any two that it may give.
A root met twice among the leaves of one tree is balanced at the first; the
elements already in the queue of an outer call do not change while a nested call
runs, so that taking the leaves at once, when all of them are balanced, gives the
same queue.

`OutputsKeepValue` is about circuits with one output, an operation: it is the last gate of
the circuit and is built last, so that it gets its old index again, at which
`new_circuit_from` looks for it. An output that is no operation never becomes a root and is
lost, and several are known to go wrong (below). `TreesBalanced` says of a circuit that is one
tree of n inputs that the total depth d of its result satisfies 2^(d-1) < n: d is at most the
logarithm of n, rounded up.

### Depth

`GetDepth` is `get_depth` as a function on all gates (the recursion of the code has
no state), `DepthAnalysis` and `Analyse` what the two queries return. `Heaviest` is the most gates of
a kind on one path from an output, with no recursion on maxima in it;
`DepthsAreHeaviestPaths` compares the three with each other and with the depths that the
mock backend computes gate by gate.

### Backend

`backend` is the object a program holds (`kind` stands for the two types), with its
`plain_text_modulus` and budget; `max_so_far` and `index` are `MockNoise`. `Eval` and
`EvalOutputs` are calls that pass `validate_same_length`, `Refuse` one that does
not (`eval_outputs` has already reset the noise then, `eval` has not),
`SetPlainTextModulus` the public setter. `EvalGate` is an iteration of the loop of
`eval`; `DropEvaluated`, `Descend`, `EvaluateNode`, `PopNode` and `NextRoot` are
the paths through the loop of `eval_with_iterative_traversal`. Both evaluate a gate
by `Evaluate`, which includes `MockNoise::update`; `Exceed` is the error it returns
and `Panic` an argument out of range, or a noise out of `usize` in a build that checks.
`WalkPanics` is the `unwrap` of an output taken out of the map before.
Circuits carry their modulus (`GivenCircuit`), and each call computes in that.

### Pipeline

`BuildOrCompile` is a step of `Compiler` (which includes `Context`), `CallBackend`
hands the compiled circuit to a `Backend`, `Evaluate` is a step of it. Nothing is
translated in between: the circuit is the compiler's variables.

## What the runs check

| Run | Instance | Shows |
|---|---|---|
| `context` | four expressions, one argument, constants below and above q = 3, words of 3 bits, overflow checked | hash-consing, folding and handles are right |
| `compiler` | four expressions over two arguments, a constant and `-`; one or two outputs; Loose, StrictAll and a Strict mode | liveness, order, values, strictness, termination, implements `LiveLowering` |
| `compiler_loose` | the same | **violated**: in Loose mode an unused argument makes a circuit no argument vector fits |
| `strictness` | every strictness lists, sums, differences and complements can make | modes judge exactly as asked, no conversion is laxer |
| `reassociate` | the family below, up to four operations, and one circuit of five | the whole pass: right usages stay right, order, `seen`, progress, termination, values by position, nothing unused |
| `reassociate_operands` | `a*b + 2 + 3` | **violated**: `a` and `b` are killed while in use |
| `new_circuit` | circuits with some gates needed, the others tombstones or left lying, usages with or without a wrong self-usage | the new arena is the kept gates renamed; errors mean wrong usages |
| `rebalance` | circuits of `+` and `*` of up to three operations, squares, constants and any outputs among them, chains of four and five inputs, and a tree in which an input comes thrice | each tree keeps its value and is built once, whatever the queue does among equals; an operation that is the one output is found again, with its value, where no operand of a square has to move; single trees get no deeper than the logarithm of their inputs; panics come of a fold that overflows or of the square of an operation inside a tree, and of nothing else; termination |
| `rebalance_difference` | `(a-b)-c` | **violated**: it is flattened like a sum |
| `backend` | two calls on circuits of up to two operations and six larger ones, three backends, two moduli, arguments that fit or do not, noise that leaves a `usize` (overflow checked) | results, depths, noise verdicts, what is evaluated, panics, every call answered, nothing of one call in the next |
| `backend_difference` | `a-b`, q = 3 | **violated**: a wrapped difference is not congruent |
| `pipeline` | programs of up to four expressions, two modes, both backends, in a release build, where folds wrap | results are what was requested, by position; strict programs never panic; folding is right, although it wraps, as q divides the number of words |

The violated runs are the `findings` of `PROJECT.json`, each with the sentence of
the repository it contradicts. The circuits shown are what the DSL lowers for these
expressions.

### Known divergences without a run

Met while modelling. The models behave in these ways; the properties above leave the cases
out by a condition or by the choice of instance, and no run demonstrates them.

- *Folding* (`dsl/src/folding.rs:18`): in a build without overflow checks a folded constant
  has wrapped, and is not the value modulo q unless q divides the number of words
  (`OverflowChecks = FALSE`; `CombinesSoundly` proves the rest, and `pipeline` checks it).
- *Modes* (`dsl/src/compilation_mode.rs:24`): a `Strictness` turned into a mode by `.into()`
  is full strictness, where `README.md:98` speaks of "strict on inputs and ops, loose on
  constants". `ModeFrom` models it; `JudgesAsAsked` is about the modes made otherwise,
  `NeverLaxer` about all.
- *Reassociation*: of `a*a*a`, as of `(a+b)+b`, a root is rewritten to itself in every round, and the pass
  does not end (`reassociate.rs:280`). Of `(a+b)+c` with a later `a+c`, the later gate is
  reused and the arena is no longer in topological order (`reassociate.rs:454`). Of `a+1`
  and `2+(2+(a+1))` the first output, taken for unused, is overwritten
  (`reassociate.rs:295`). Of `(x+y)+z`, `x+z` and `(x+w)+y` the first is rewritten to
  `(x+z)+y`, which empties `x+y`; the last then reuses `x+y`, which comes off the
  killing list again, but is no user of `x` and `y` any more (`reassociate.rs:454`).
- *Compaction*: of a square `d*d` whose `d` moves, one operand is renamed
  (`lib.rs:57`); outputs come back in the order of the arena, once each (`lib.rs:88`).
- *Rebalancing*: with several outputs, or after a square, an output is looked for at its
  old index and not found, or found to be another gate (`rebalance.rs:53-54`). An
  output that is an input or a constant never becomes a root (`rebalance.rs:263`) and is lost:
  the circuit of a lone input, which is its output, comes back empty.
  Of `x+1+x+2+x` the queue may combine `x` with `x`; the constants fold and are left out, so
  that `x` moves, and one of the two operands is renamed (`lib.rs:57`).
  `p*p` of a product `p` builds more gates than there are usages, and panics
  (`rebalance.rs:210`; `PanicsExplained` excepts such squares, `NoTreeTwice`). The
  multiplicative depth of `((a+b+c)*d)*(e*f)` grows, since a root enters the queue with the
  count of its leaves (`rebalance.rs:132`), where `README.md:71` promises a reduction.
- *Depth*: the comment at `passes/src/depth.rs:16-19` leaves out the "+ 1" of the total
  depth.
- *Backends*: `eval_outputs` panics on an output that is listed twice
  (`iterative.rs:122`; `EvaluableNeverPanics` excepts it); in a build without overflow
  checks noise can wrap and pass the budget (`mock_fhe.rs:61`; in one with them it ends the
  call in a panic, not in the error that `README.md:120` speaks of, which
  `EvaluableNeverPanics` excepts by `NoiseTooGreat`).

### Bounds, and why they are enough

- *Words* have 3 bits and q is 3 in `context`, `compiler` and the passes: sums and products of reduced constants stay
  in a word, those of unreduced ones leave it, and q does not divide the number
  of words, so a wrapped result differs from the residue.
- *Context*: four expressions reach an operation on operations, a fold whose
  result is found again, and a swap of operands. All three operators are used.
- *Compiler*: four expressions reach sharing on both sides of an operation, an
  operation on itself, an expression on the stack twice, one output below
  another and one requested twice. Only `-` is used, because the traversal does
  not look at the operator, and `-` is the one that tells left from right. One
  constant is enough as the compiler does not fold; it serves for the strict kinds.
- *Reassociate*: the circuits are given as a constant, not built by the compiler,
  which would multiply states without adding any: the pass uses indices only as
  identities and to order its operations, so leaves can come first. `Compiled`
  states what a compiler's circuit is, and TLC checks every circuit of a run
  against it. A root takes apart an operation on leaves and its three leaves
  differ: outside this family usages go wrong (`reassociate_operands`) and rounds may not
  end, and every property would be violated at once. The family still contains every kind
  of rewrite, both shapes, both candidates, competition of roots for one operation, several
  outputs, several rounds, reuse of later gates, and overflow. Operations on leaves
  have their operands in ascending order, since the other order only swaps the two
  candidates. `NestedReuse` is outside the family: there a killed operation takes its
  operand along, in either order of the killing list.
- *Strictness* has no bound: its state space is finite.
- *NewCircuit*: up to three operations over two inputs; one to two of them dropped, so
  that a gate moves by one, by two or not at all, and its users are behind, one
  or two of them, with one or both operands moved. Squares are left out by
  `HandoverAssumption`, since one of their operands is not renamed.
- *Rebalance*: three operations over three inputs give trees of up to four leaves, trees
  below trees, leaves shared by two trees, equal and different ranks, and constants
  that fold in the middle. Five leaves are in the chains, where ties matter; in
  `Thrice` the two constants fold, so that an input moves that the queue may combine with
  itself. Those circuits have one output, since a second one moves, and operands in ascending order, since
  the pass does not distinguish them. What holds in spite of squares, several outputs and
  overflow is checked on circuits of up to three operations over an input, or two over an
  input and two constants.
- *Backend*: q divides the number of words (powers of two), since otherwise
  differences are wrong (`backend_difference`). Two operations reach sharing, squares,
  dropped inputs, and outputs below outputs; `TwoPaths` has its multiplication and most of
  its operations on different paths. The noise budget 6 is that of one multiplication,
  41 that of a fourth power. A `usize` has 64 values, so that `Eighth` overflows it within
  the budget 41: its noise would come back as 22. Two calls let a refusal, an error or a success come before
  another call, and since a backend keeps nothing but its modulus, tracker and last answer,
  a third would meet no new state of it; 2 and 3 as arguments of moduli 4 and 8 make the
  wrong modulus show.
- *Pipeline*: as `Compiler`, with a constant above q, words of 4 bits and q = 4, in a build
  that wraps: `5-5` folds to 0, and `0-5` wraps and folds to 3, the value modulo 4.

`CHECK_DEADLOCK FALSE` in the runs of the passes, of `Backend` and of
`Pipeline`: a pass returns or panics and is then over, and so is a program
whose calls are used up.

### Fairness

Weak fairness of the steps of a loop, and of nothing else: `Step` in `Compiler`,
`PassStep` in `ReassociatePass`, `BalanceStep` in `Rebalance`, `Steps` in `Backend`.
`NewCircuit`, whose loop is a bounded one over the usages, and `Pipeline` state none, as
their properties are safety.
A loop of sequential code, once entered, runs on its own. The passes
take no input on their way, so all their steps belong to one loop. Nothing is assumed of the
program that calls `input`, `compile`, `eval` or drops a result: a context or a
backend may be left alone for ever.

## What is proved

TLAPS checks, for every word size, modulus, set of arguments, constants,
operators and modes, and for arenas and requests of any size:

- **Context** (`CompilerProofs`). `ContextInv` is the type invariant, exactness of
  the interner, topological order and the absence of foldable operations. They
  are inductive only together: that a new expression is no duplicate needs the
  interner to be exact, and that an allocated operation does not fold needs the
  fold's result to be a constant or the expression itself. From it follow
  `ContextTypeCorrect`, `HashConsing`, `CommonSubexpressionsShared`,
  `ArenaIsTopological` and `ConstantsFolded`.
  `CombinesSoundly`: what is combined has the value of the operation on its operands,
  folded or not (`FoldsSafe`).
- **Compiler** (`CompilerProofs`). `CompilerInv` adds to `ContextInv` the
  one-to-one correspondence of gates and lowered expressions, the order of the
  inputs, and `WorkExact`: lowered, at hand and on the stack together
  contain the outputs met so far and lie within what is live.
  `LiveExactly` speaks of the end only; it is inductive through `WorkExact`,
  because at the end nothing is at hand or on the stack, so what is lowered holds
  the outputs, is closed under operands, and is live: it is the least such set. The
  theorems are `CompilerTypeCorrect`, `GatesAreTheLowered`,
  `CircuitsTopological`, `InputsAreListed` and `LiveExpressionsExactly`.
  `CircuitsKeepValues` follows the gates in the order of the
  expressions they lower: each has the value of its expression, for all arguments.
  `StrictCircuitsReach`: in a mode strict about inputs an accepted circuit has every input
  of the context, so that arguments numbered without a gap are all there.
- **Refinement** (`CompilerProofs`). `CompilerImplementsPromise`: every
  behaviour of `Compiler` is one of `LiveLowering`. A lowering step is `Include`,
  the traversal stutters, `Accept` and `Refuse` are `Answer`. That a refusal is
  right needs `LiveExactly`.
- **Modes** (`StrictnessProofs`). `StrictnessInv` relates the bits to the kinds
  asked for: the three bits with a meaning agree with them, and nothing is said of
  the other five. It is inductive because no operator mixes bits. `ModesJudgeAsAsked`
  and `ModesNeverLaxer` follow.
- **Compaction** (`NewCircuitProofs`). For every proper handover of any size.
  `RenamedCopy` and the order of the new arena speak of the gates already copied;
  `RebuildInv` adds what is true of the gates still to come: an operand whose turn
  has passed is already the place it has gone to, any other is still the old index
  (`Turned`). That telling the users once is enough needs that no operand stands on
  both sides, and that no place is taken for an old index needs that a place is
  never above the old index, which is counted (`Places`). An operand that does stand on
  both sides is no harm if it stays, and it does if all before it are kept
  (`SquaresStay`). The theorems are
  `NewCircuitTypeCorrect`, `KeptGatesCopied`, `RebuiltTopological`,
  `RightUsagesSuffice` and `OutputsAndInputsFollow`.
- **Reassociation** (`ReassociateProofs`). For every circuit of the compiler, those outside
  the family of the runs included. `ReassociateInv` is the type invariant, that operands of
  gates are gates and the dead are the tombstones, and that until a round rewrites something
  it has killed nothing it goes round. It gives `ReassociateTypeCorrect`,
  `TombstonesAreDead` and `FoundByContents`. `NeverCyclic` gives each gate a
  height above those of its operands: a gate that is reused may come after the root, but its
  operands have been below the root, so that the root can be lifted above it with all that is
  as high. Hence `AlwaysValued`, and `RewritesKeepValues`: a valuation of the gates is still
  one after a step. `UsagesStayRight` is the proof of `UsagesStayExact`. Its core is
  `Severed`, a least fixed point: exactly the operations that severing leaves unused let go
  of their operands (`SeveredIs`), none as high as the root does (`LetGoBelow`), and
  therefore what is used after the step is what was used and has not let go
  (`CarefulRewrite`). As long as all rewrites are careful (`CarefulRewrites`), usages are
  thus right throughout, and it follows that `NothingUsedIsKilled`, that
  `RewritesEliminate`, that what is left is in order for compaction (`CarefulLeavesProper`),
  and `OutputsStandStill`: whatever the gates at the outputs stand for at the end, they stood
  for in the circuit that was given. The last goes through the gates by their heights: a
  careful rewrite changes the value of nothing that is used after it but the operation it
  takes apart, which nothing but the root uses. Then compaction: what the rounds leave does
  not change any more, it is proper, and so `RebuildInv` of `NewCircuitProofs` holds from the
  call on (`AfterRounds`). `NothingUnusedIsLeft`: a kept gate has a user, usages are
  exact, so the user is a kept operation or an output, and both have been renamed with it. `PassKeepsOutputs`
  joins `OutputsStandStill` to the values of a renamed copy, and positions to the ascending
  order in which outputs are collected.
- **Rebalancing** (`RebalanceProofs`). `RebalanceInv` says which indices are whose: those
  handed out lie above the circuit's, calls on the stack go down to roots before their
  callers', an old gate in the queue can be placed, and no two old gates are mapped to the
  same new one. `RebalanceTypeCorrect` and `GatesMappedOnce` follow. `ValuesInv` has the
  invariant of the loop of `rebuild`: what the elements of the queue make together
  (`Total`) is what the innermost root stands for. It holds at first because `Leaves` takes
  a tree apart into what makes it up, and stays because a total does not depend on the order
  (`TotalOfDropped`, `TotalOfMerged`), whichever pair the queue gives. This is `TreesKeepValue`. `RoomInv`
  counts: the arena and the queue together have one element for each leaf that is placed,
  for each operation of the trees that are built, and of the tree in hand
  (`CountedIn`). Unless an operation inside a tree is squared, trees share no operation
  and meet none twice, so that there are no more gates than the circuit had (`RoomForTrees`).
  `RebalanceKeepsOutput`: at every moment an operation of the new arena has its operands
  before it, is noted as their user, and is itself used, still in the queue, or a root that is
  built (`UsesHeld`). When the one output is built, the whole circuit has been, and counting
  (`AtLeast`, with equality where flatten meets no operation twice) gives it its old index or a panic
  (`OutputHeld`). What is handed over is then proper, and the argument goes on as for
  reassociation (`AfterTrees`).
  `TreesAreBalanced`: in a circuit that is one tree of inputs nothing folds and everything
  made is used (`AllUsed`). The inductive invariant of the queue is `TreeEven`: for some power of two
  b all ranks lie between b and 2b, at most one strictly between, and no element is deeper
  than the logarithm of its rank. The pair of lowest rank is always two of rank b, or that
  odd one and the last of rank b, or the two that are left; combining it keeps the invariant or starts it
  anew with 2b (`CombineEven`). Only the ranks are looked at, hence for any order among equals.
- **Backends** (`BackendProofs`). For every circuit of the compiler, all arguments,
  budgets and moduli, and any sequence of calls. `BackendInv` adds to the type
  invariant and `EachFromItsOperands`: the maximum of the noise tracker is within
  the budget and bounds all noise met (`Tracked`), which is why noise below it
  need not be compared; the modulus in use is the circuit's (`InModulus`); and, as
  in the compiler, elements, node at hand, stack and roots contain the outputs and
  lie within what is live (`WalkExact`). The theorems are `BackendTypeCorrect`,
  `ElementsFromOperands`, `ResiduesOfTheCircuit`, `WithinBudget` and
  `EvaluatesExactlyAsked`. On top of it `ResultsAreRight` (every element is the value of
  its gate), `BudgetVerdictRight` (as long as a call runs, the noise of an element is the
  unbounded noise of its gate, and the tracker's is the greatest), `OnlyThesePanic` (an
  argument that is not there, an output listed twice, or noise that a `usize` does not hold) and
  `DepthsAreThoseOfPaths` (the recursive depths are attained by a path and exceeded by none).
- **Pipeline** (`PipelineProofs`). `PipelineInv` is `CompilerInv` and as much of the
  backend's invariant as speaks of a call that runs on the circuit of the compiler, which
  does not change meanwhile. `ProgramsCompute` puts the values of `Compiler` and of
  `Backend` together; `DeclaredAreExpected` and `StrictProgramsAnswered` are what strictness
  about inputs is good for.

`DagProofs` has the lemmas on reachability, on sequences used as stacks, on arithmetic modulo
q, and on values. Recursive functions are reasoned about by two facts that take a set where
the library's induction theorems take an operator: `PositionInduction` (a set that has a
position whenever it has those before it has all) and `RecursionSolvable` (a definition that
looks only at earlier positions has a solution). From them `DenoteEquation`: `Denote` is the
one valuation of an ordered arena. `Reassociate` keeps no such order; there `Valuations` are
whatever satisfies the equations, and `HeightInduction` takes the place of
`PositionInduction`.

The assumptions are those named in the modules: q is a word and not zero
(`validate_non_zero`), the constants a program writes are words, a mode is a set of
kinds, circuits are as the compiler makes them (`Compiled`, most of which the
theorems on `Compiler` and `Context` establish), handovers are `Proper`. `MaxExprs`,
`MaxOutputs` and `MaxCalls` are bounds of the models; the theorems hold for every
value of them. TLC evaluates the assumptions in the passing runs.

Some theorems suppose more, each for a reason that the runs or the divergences show:

| Hypothesis | Says | Needed, since | In the runs |
|---|---|---|---|
| `FoldsSafe` | overflow is checked, or q divides the number of words | otherwise a folded constant has wrapped | the first in `context` and `compiler`, the second in `pipeline` |
| `ModuliSafe`, `ModulusSafe` | q divides the number of words, or residues stay in range | the backends' `-` and `*` wrap (`backend_difference`) | q is 4 or 8, of 16 words |
| `NoiseFits` | the square of the budget and the cost of `*` are a `usize`; supposed of a build that wraps by `BudgetVerdictRight`, of one that checks by `StrictProgramsAnswered` | otherwise noise wraps below the budget, or panics | it holds in `pipeline`, and does not in `backend`, where overflow is checked |
| `AssociativeCircuits` | the circuit is of `+` and `*` | a difference is flattened like a sum (`rebalance_difference`) | so are the circuits of `rebalance` |
| `OrderedOutputs` | the outputs of a circuit ascend | compaction collects them in the order of the arena, once each | so do those of `reassociate` |
| `CarefulRewrites` | every rewrite of the execution is `Careful` | others leave usages wrong (`reassociate_operands`) | every rewrite of `reassociate` is |
| `SquaresStay(...)` | no operand of a square is moved by compaction | `new_circuit_from` renames one of the two | the family of `reassociate` has no squares, that of `rebalance` has |

In a debug build on 64 bits every program has `FoldsSafe` and, for budgets below four
thousand million, `NoiseFits`; in a release build powers of two as moduli have the first.

Proved and in no run, because they are steps towards properties that are, or are implied by
them: the type invariants of `Context`, `Compiler`, `NewCircuit` and `Backend`,
`HashConsed`, `ArenaTopological`, `GatesMirrorExprs`, `GatesTopological`, `InputsListed`,
`NewTopological`, `EachFromItsOperands`, `BudgetRespected`
and `ReducedForThisCircuit`; and of `Reassociate` that there are no cycles, that there are
values and what keeps them (`NeverCyclic`, `AlwaysValued`, `RewritesKeepValues`,
`OutputsStandStill`) and that nothing used is killed (`UsedClosed`).

Model-checked only: liveness (`CompileAnswers`, `PassAnswers`, `RebalanceAnswers`,
`CallsAnswered`), which is beyond this prover. Every invariant and every
action property that a passing run checks is also a theorem.

## What is not modelled

- Signed plaintext types. Their remainder may be negative and their overflow lies
  on both sides; the DSL's own contract speaks of residues. `Supported` includes them,
  but no test computes with them: those that name them only instantiate the bounds.
- Handles of another context: an index in range is indistinguishable from one's
  own.
- Hash collisions (maps and sets are exact), capacity, memory and running time,
  such as that of `get_depth`, which visits a shared gate once for each path.
- Tombstones in circuits given to a backend, to `depth` or to rebalancing, and with
  them `BalancingError`: no circuit of the compiler or of a pass has one.
- `backend.add` and the like called by a program directly: they change no state.
- The compiler followed by a pass in one model: the passes are checked on circuits
  that satisfy `Compiled`, and go wrong on many of them (see the findings and the
  divergences); what is left to check end to end is in `pipeline` and in the runs of the
  passes.
- The graphview export, accessors, formatting and build files.
