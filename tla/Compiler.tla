------------------------------ MODULE Compiler -------------------------------
(* dsl::compile: lowering the expressions of a context into the gates of a  *)
(* circuit.  CircuitCompiler::build_from walks the expressions below the    *)
(* requested outputs in post-order, iteratively, with an explicit stack; an *)
(* iteration of its loop is an action here.  Between compilations the       *)
(* program goes on building expressions (Context).                          *)
EXTENDS Context

CONSTANT MaxOutputs   \* bound of the model: outputs of one compile_many

ASSUME CompilerAssumption == MaxOutputs \in Nat

VARIABLES
  roots,           \* the outputs whose turn has not come
  output_exprs,    \* the outputs whose turn has come (output_gate_indices)
  current,         \* current_node, or 0
  dfs_stack,
  gates,           \* the gates allocated so far
  inputs,          \* those of them that are inputs
  lowered,         \* expr_idx_to_gate_idx
  outputs,         \* the circuit's output gates
  verdict,         \* what the call came to: "none" yet, "ok", "error", "panic"
  unused           \* the expressions that the CompilationError lists

compiler_vars == <<roots, output_exprs, current, dfs_stack, gates, inputs,
                   lowered, outputs, verdict, unused>>
vars == <<mode, arena, interner, returned, roots, output_exprs, current,
          dfs_stack, gates, inputs, lowered, outputs, verdict, unused>>

\* CircuitCompiler::with, as every compilation starts.
Init ==
  /\ ContextInit
  /\ roots = << >> /\ output_exprs = << >>
  /\ current = 0 /\ dfs_stack = << >>
  /\ gates = << >> /\ inputs = << >> /\ lowered = [e \in {} |-> 0]
  /\ outputs = << >> /\ verdict = "none" /\ unused = {}

Idle == output_exprs = << >> /\ verdict = "none"
Lowering == output_exprs # << >> /\ verdict = "none"

Requested == Range(output_exprs) \cup Range(roots)
IsLowered(e) == e \in DOMAIN lowered

-----------------------------------------------------------------------------
\* compile (one output) and compile_many.
Compile(outs) ==
  /\ Idle
  /\ outs # << >>
  /\ current' = Head(outs)
  /\ output_exprs' = <<Head(outs)>>
  /\ roots' = Tail(outs)
  /\ returned' = 0
  /\ UNCHANGED <<mode, arena, interner, dfs_stack, gates, inputs, lowered,
                 outputs, verdict, unused>>

\* compile_many(&[]): there is no first output to unwrap.
CompileNothing ==
  /\ Idle
  /\ verdict' = "panic"
  /\ returned' = 0
  /\ UNCHANGED <<mode, arena, interner, roots, output_exprs, current, dfs_stack,
                 gates, inputs, lowered, outputs, unused>>

\* The node at hand has been lowered meanwhile, by another path to it.
SkipLoweredKeeps ==   \* a slip: looked at, not taken
  /\ Lowering /\ current # 0 /\ IsLowered(current)
  /\ UNCHANGED vars

SkipLowered ==
  /\ Lowering /\ current # 0
  /\ IsLowered(current)
  /\ current' = 0
  /\ UNCHANGED <<mode, arena, interner, returned, roots, output_exprs, dfs_stack,
                 gates, inputs, lowered, outputs, verdict, unused>>

\* put_in_gates and pair: the arena of gates becomes `all', and the node at hand
\* is lowered to the gate at `index'.
PutAndPair(all, index) ==
  /\ gates' = all
  /\ lowered' = [e \in DOMAIN lowered \cup {current} |->
                   IF e = current THEN index ELSE lowered[e]]
  /\ current' = 0
  /\ UNCHANGED <<mode, arena, interner, returned, roots, output_exprs, dfs_stack,
                 outputs, verdict, unused>>


Lower(gate) == PutAndPair(Append(gates, gate), Len(gates) + 1)

LowerInput ==
  /\ Lowering /\ current # 0
  /\ ~ IsLowered(current) /\ IsInput(arena[current])
  /\ Lower(arena[current])
  /\ inputs' = Append(inputs, Len(gates) + 1)

LowerConst ==
  /\ Lowering /\ current # 0
  /\ ~ IsLowered(current) /\ IsConst(arena[current])
  /\ Lower(arena[current])
  /\ UNCHANGED inputs

\* An operation at hand, and which of its operands are lowered.
AtOp(left, right) ==
  /\ Lowering /\ current # 0
  /\ ~ IsLowered(current) /\ IsOp(arena[current])
  /\ IsLowered(arena[current].lhs) = left
  /\ IsLowered(arena[current].rhs) = right

LowerOpSwapped ==   \* a slip: the operands change places
  /\ AtOp(TRUE, TRUE)
  /\ Lower(OpNode(arena[current].op, lowered[arena[current].rhs],
                  lowered[arena[current].lhs]))
  /\ UNCHANGED inputs

LowerOp ==
  /\ AtOp(TRUE, TRUE)
  /\ Lower(OpNode(arena[current].op, lowered[arena[current].lhs],
                  lowered[arena[current].rhs]))
  /\ UNCHANGED inputs

\* Otherwise the operation goes back on the stack, below its right operand if
\* that one is missing, and the left operand, if missing, is next.
Descend(next, pushed) ==
  /\ current' = next
  /\ dfs_stack' = dfs_stack \o pushed
  /\ UNCHANGED <<mode, arena, interner, returned, roots, output_exprs, gates,
                 inputs, lowered, outputs, verdict, unused>>

DescendLeft == AtOp(FALSE, TRUE) /\ Descend(arena[current].lhs, <<current>>)
DescendRight == AtOp(TRUE, FALSE) /\ Descend(0, <<current, arena[current].rhs>>)
DescendBoth ==
  AtOp(FALSE, FALSE) /\ Descend(arena[current].lhs, <<current, arena[current].rhs>>)

\* Nothing at hand: the stack is consumed first, then the next output.
Pop ==
  /\ Lowering /\ current = 0 /\ dfs_stack # << >>
  /\ current' = dfs_stack[Len(dfs_stack)]
  /\ dfs_stack' = SubSeq(dfs_stack, 1, Len(dfs_stack) - 1)
  /\ UNCHANGED <<mode, arena, interner, returned, roots, output_exprs, gates,
                 inputs, lowered, outputs, verdict, unused>>

NextRoot ==
  /\ Lowering /\ current = 0 /\ dfs_stack = << >> /\ roots # << >>
  /\ dfs_stack' = <<Head(roots)>>
  /\ output_exprs' = Append(output_exprs, Head(roots))
  /\ roots' = Tail(roots)
  /\ UNCHANGED <<mode, arena, interner, returned, current, gates, inputs, lowered,
                 outputs, verdict, unused>>

\* apply_mode: what was not lowered is unused.
NotLowered == Handles \ DOMAIN lowered

\* Slips: any strictness is taken for StrictAll; inputs are never checked.
FailsModeAll == mode # {} /\ NotLowered # {}
FailsModeNoInputs == \E e \in NotLowered : arena[e].kind \in mode \ {"Input"}

FailsMode == \E e \in NotLowered : arena[e].kind \in mode

Done == Lowering /\ current = 0 /\ dfs_stack = << >> /\ roots = << >>

Accept ==
  /\ Done
  /\ ~ FailsMode
  /\ outputs' = [i \in DOMAIN output_exprs |-> lowered[output_exprs[i]]]
  /\ verdict' = "ok"
  /\ UNCHANGED <<mode, arena, interner, returned, roots, output_exprs, current,
                 dfs_stack, gates, inputs, lowered, unused>>

Refuse ==
  /\ Done
  /\ FailsMode
  /\ verdict' = "error"
  /\ unused' = NotLowered
  /\ UNCHANGED <<mode, arena, interner, returned, roots, output_exprs, current,
                 dfs_stack, gates, inputs, lowered, outputs>>

\* A slip: the next compilation goes on with what this one lowered.
ReleaseKeepsLowered ==
  /\ verdict # "none"
  /\ roots' = << >> /\ output_exprs' = << >>
  /\ current' = 0 /\ dfs_stack' = << >>
  /\ outputs' = << >> /\ verdict' = "none" /\ unused' = {}
  /\ UNCHANGED <<mode, arena, interner, returned, gates, inputs, lowered>>

\* The caller is done with the result; each compilation has its own compiler.
Release ==
  /\ verdict # "none"
  /\ roots' = << >> /\ output_exprs' = << >>
  /\ current' = 0 /\ dfs_stack' = << >>
  /\ gates' = << >> /\ inputs' = << >> /\ lowered' = [e \in {} |-> 0]
  /\ outputs' = << >> /\ verdict' = "none" /\ unused' = {}
  /\ UNCHANGED ctx_vars

Step ==
  \/ SkipLowered \/ LowerInput \/ LowerConst \/ LowerOp
  \/ DescendLeft \/ DescendRight \/ DescendBoth
  \/ Pop \/ NextRoot \/ Accept \/ Refuse

\* The program's calls of the context, which no compilation is part of.
Build == Idle /\ ContextNext /\ UNCHANGED compiler_vars

Requests == UNION {[1 .. n -> Handles] : n \in 1 .. MaxOutputs}

Next ==
  \/ Build
  \/ \E outs \in Requests : Compile(outs)
  \/ CompileNothing
  \/ Step
  \/ Release

\* The loop of build_from runs on its own once it is entered.
Spec == Init /\ [][Next]_vars /\ WF_vars(Step)

-----------------------------------------------------------------------------
CompilerTypeOK ==
  /\ ContextTypeOK
  /\ roots \in Seq(Handles) /\ output_exprs \in Seq(Handles)
  /\ current \in Handles \cup {0} /\ dfs_stack \in Seq(Handles)
  /\ gates \in Seq(Node)
  /\ inputs \in Seq(DOMAIN gates) /\ outputs \in Seq(DOMAIN gates)
  /\ DOMAIN lowered \subseteq Handles
  /\ \A e \in DOMAIN lowered : lowered[e] \in DOMAIN gates
  /\ verdict \in {"none", "ok", "error", "panic"}
  /\ unused \subseteq Handles

\* The gates are the lowered expressions, one each: an expression that several
\* paths or several outputs reach, and that may wait on the stack twice, is not
\* lowered twice, and its gate's operands are the gates of its operands, in that
\* order (compile.rs:153-155, 205).
Image(e) == LET n == arena[e] IN
            IF IsOp(n) THEN OpNode(n.op, lowered[n.lhs], lowered[n.rhs]) ELSE n

GatesMirrorExprs ==
  /\ Closed(arena, DOMAIN lowered)
  /\ \A e \in DOMAIN lowered : gates[lowered[e]] = Image(e)
  /\ \A e, f \in DOMAIN lowered : lowered[e] = lowered[f] => e = f
  /\ \A g \in DOMAIN gates : \E e \in DOMAIN lowered : lowered[e] = g

\* "This is a topologically ordered DAG" (ir/src/circuit.rs:13), whatever the
\* order in which the program built the expressions: every gate comes after its
\* operands, from the first gate on.
GatesTopological == Topological(gates)

\* When the traversal is over it has lowered exactly the expressions that the
\* outputs need: it reached all of them, and no other.
LiveExactly ==
  verdict \in {"ok", "error"} => DOMAIN lowered = Live(arena, Requested)

\* The circuit computes what was asked for: output i of the circuit has, under
\* every input, the value of the i-th requested expression.  So requesting an
\* expression twice yields it twice, and the order is kept (compile.rs:239-244).
SameValue ==
  verdict = "ok" =>
    /\ DOMAIN outputs = DOMAIN output_exprs
    /\ \A env \in Environments :
         LET exprs == Denote(arena, env)
             circuit == Denote(gates, env)
         IN  \A i \in DOMAIN outputs : circuit[outputs[i]] = exprs[output_exprs[i]]

\* The circuit's list of inputs, whose length validate_same_length compares with
\* the arguments, lists every input gate once, in gate order.
InputsListed ==
  verdict = "ok" =>
    /\ Range(inputs) = {g \in DOMAIN gates : IsInput(gates[g])}
    /\ \A i, j \in DOMAIN inputs : i < j => inputs[i] < inputs[j]

\* The traversal ends: build_from answers every call (compile.rs:150-234).
CompileAnswers == Lowering ~> verdict # "none"

\* Compilation does what LiveLowering promises.
Promise == INSTANCE LiveLowering WITH
  strict <- mode,
  nodes <- arena,
  wanted <- Requested,
  included <- DOMAIN lowered,
  answer <- IF verdict = "panic" THEN "none" ELSE verdict,
  reported <- unused

ImplementsLiveLowering == Promise!Spec

\* The program's arguments are numbered 0, 1, ... without a gap.
ArgumentsContiguous ==
  LET declared == {arena[e].index : e \in {f \in Handles : IsInput(arena[f])}}
  IN  \A i \in declared : 0 .. i \subseteq declared

\* The backends want as many arguments as the circuit has input gates
\* (validation.rs:9) and index them by the number in the gate (iterative.rs:47).
ArgumentsReach ==
  \A g \in DOMAIN gates : IsInput(gates[g]) => gates[g].index < Len(inputs)

\* In a mode that is strict about inputs, a program that numbers its arguments
\* without a gap gets a circuit that can be evaluated: the argument vector that
\* passes the length check reaches to every index.
StrictCircuitsEvaluable ==
  verdict = "ok" /\ "Input" \in mode /\ ArgumentsContiguous => ArgumentsReach

\* The same of every mode: "lowers them into an IR that any backend can evaluate"
\* (README.md:5), when Loose drops unused inputs ("unused nodes are silently
\* optimized away", README.md:94).
CircuitsEvaluable == verdict = "ok" /\ ArgumentsContiguous => ArgumentsReach
=============================================================================
