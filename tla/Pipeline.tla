------------------------------- MODULE Pipeline -------------------------------
(* A program from end to end: it builds expressions (Context), has a circuit  *)
(* compiled of them (Compiler), and has a backend evaluate the circuit        *)
(* (Backend).  What a component promises the next one only shows here: the    *)
(* meaning of argument numbers, of output positions and of the modulus.       *)
EXTENDS Compiler, FiniteSets

CONSTANTS
  Backends, Arguments,   \* as of Backend
  NoiseWords

ASSUME PipelineAssumption ==
  /\ Backends \subseteq [kind : {"PlainModQ", "MockFHE"}, noise_budget : Nat]
  /\ Arguments \subseteq Seq(Word)
  /\ NoiseWords \in Nat \ {0}

VARIABLES
  backend, max_so_far, index, calls, call, circuit, with, elems, at,
  eval_roots, eval_current, eval_stack, eval_verdict, results

Evaluation == INSTANCE Backend WITH
  Circuits <- {}, Moduli <- {Modulus}, MaxCalls <- 1,
  roots <- eval_roots, current <- eval_current, dfs_stack <- eval_stack,
  verdict <- eval_verdict

evalVars == <<backend, max_so_far, index, calls, call, circuit, with, elems, at,
              eval_roots, eval_current, eval_stack, eval_verdict, results>>
pipelineVars == <<vars, evalVars>>

PipelineInit == Init /\ Evaluation!BackendInit

\* The program stops building and compiling when it has its circuit evaluated: a
\* bound of the model, since a circuit is a value that later calls do not change.
BuildOrCompile == calls = 0 /\ Next /\ UNCHANGED evalVars

CompiledCircuit == [gates |-> gates, outputs |-> outputs, plain_text_modulus |-> Modulus]

CallBackend ==
  /\ verdict = "ok"
  /\ \E args \in Arguments :
       \/ Evaluation!Refuse("eval_outputs", CompiledCircuit, args)
       \/ Evaluation!EvalOutputs(CompiledCircuit, args)
  /\ UNCHANGED vars

Evaluate == Evaluation!Steps /\ UNCHANGED vars

PipelineNext == BuildOrCompile \/ CallBackend \/ Evaluate

PipelineSpec == PipelineInit /\ [][PipelineNext]_pipelineVars

-----------------------------------------------------------------------------
Environment == [i \in InputIndices |-> IF i + 1 \in DOMAIN with THEN with[i + 1] ELSE 0]

\* "lowers them into an IR that any backend can evaluate" (README.md:5):
\* what comes back at position i is the value modulo q of the i-th expression that
\* was requested, with argument number k for input k, whatever was folded, shared or
\* dropped on the way.
ProgramComputed ==
  eval_verdict = "ok" =>
    /\ DOMAIN results = DOMAIN output_exprs
    /\ LET value == Denote(arena, Environment)
       IN  \A i \in DOMAIN output_exprs : results[i].value = value[output_exprs[i]]

\* In a mode that is strict about inputs, a program whose arguments are numbered
\* without a gap and that requests no expression twice meets a panic in no circuit,
\* however many arguments it gives.
StrictProgramsNeverPanic ==
  /\ eval_verdict = "panic"
  /\ "Input" \in mode /\ ArgumentsContiguous
  => \E i, j \in DOMAIN output_exprs : i # j /\ output_exprs[i] = output_exprs[j]

\* A strict program may give exactly as many arguments as it declared: it is refused
\* for the number of arguments exactly if that number is another.
RefusedForDeclared ==
  eval_verdict # "none" /\ "Input" \in mode =>
    ( eval_verdict = "InvalidInputLen"
      <=> Len(with) # Cardinality({e \in Handles : IsInput(arena[e])}) )
=============================================================================
