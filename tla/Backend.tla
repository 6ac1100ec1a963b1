------------------------------- MODULE Backend -------------------------------
(* backend: a program holds a backend, PlainModQBackend or MockFHEBackend, and *)
(* has it evaluate circuits, one call after the other: eval goes through all   *)
(* gates in order, eval_outputs (iterative.rs) walks below the outputs as the  *)
(* compiler does, with an explicit stack.  An action is one iteration of       *)
(* either loop.                                                                *)
EXTENDS Depth

CONSTANTS
  Backends,     \* the backends a program may make: kind and noise_budget
  Moduli,       \* the moduli of its circuits
  Arguments,    \* the arguments it may give: sequences of words
  NoiseWords,   \* how many values usize has
  MaxCalls      \* bound of the model: calls of one program

ASSUME BackendAssumption ==
  /\ Backends \subseteq [kind : {"PlainModQ", "MockFHE"}, noise_budget : Nat]
  /\ Moduli \subseteq Word \ {0}
  /\ Arguments \subseteq Seq(Word)
  /\ NoiseWords \in Nat \ {0}
  /\ MaxCalls \in Nat

VARIABLES
  backend,      \* kind, noise_budget and plain_text_modulus
  max_so_far,   \* the noise tracker: the most noise met,
  index,        \* and the gate that has it
  calls,        \* how many calls were made
  call,         \* "eval" or "eval_outputs"
  circuit, with,
  elems,        \* the elements evaluated so far, by gate
  at,           \* eval: the gate that is next
  roots, current, dfs_stack,   \* eval_outputs, as in Compiler
  verdict,      \* "none", "running", "ok", "InvalidInputLen",
                \* "NoiseBudgetExceeded" or "panic"
  results

backendVars == <<backend, max_so_far, index, calls, call, circuit, with, elems, at,
                 roots, current, dfs_stack, verdict, results>>
walkVars == <<at, roots, current, dfs_stack>>

\* A circuit with its modulus.
GivenCircuit(c, q) == [gates |-> c.gates, outputs |-> c.outputs, plain_text_modulus |-> q]

\* The inputs the circuit lists are counted, but arguments are looked up by number.
NumInputs(c) == Cardinality(InputGates(c.gates))

BackendInit ==
  /\ \E b \in Backends : backend = [kind |-> b.kind, noise_budget |-> b.noise_budget,
                                    plain_text_modulus |-> 1]
  /\ max_so_far = 0 /\ index = 0
  /\ calls = 0 /\ call = "eval"
  /\ circuit = GivenCircuit([gates |-> << >>, outputs |-> << >>], 1) /\ with = << >>
  /\ elems = << >> /\ at = 1
  /\ roots = << >> /\ current = 0 /\ dfs_stack = << >>
  /\ verdict = "none" /\ results = << >>

-----------------------------------------------------------------------------
Mock == backend.kind = "MockFHE"

ENC_NOISE == 1
ADD_COST == 1
MUL_COST == 5

\* MockFHEElement; for PlainModQBackend, which has bare values, the depth and the
\* noise stay 0.
Element(value, depth, noise) ==
  [value |-> value % backend.plain_text_modulus, depth |-> depth, noise |-> noise]

FromInput(v) == Element(v, 0, IF Mock THEN ENC_NOISE ELSE 0)
FromConstant(v) == Element(v, 0, 0)

\* add, sub and mul.
DepthOf(op, x, y) == Larger(x, y) + IF op = "Mul" THEN 1 ELSE 0
ExactNoise(op, x, y) == IF op = "Mul" THEN x * y + MUL_COST ELSE Larger(x, y) + ADD_COST
NoiseOverflows(op, x, y) == Mock /\ ExactNoise(op, x, y) >= NoiseWords

Combine(op, x, y) ==
  LET value == MachineOp(op, x.value, y.value)
  IN  IF Mock
      THEN Element(value, DepthOf(op, x.depth, y.depth),
                   ExactNoise(op, x.noise, y.noise) % NoiseWords)
      ELSE Element(value, 0, 0)

Evaluated(g) ==
  LET n == circuit.gates[g] IN
  CASE IsInput(n) -> FromInput(with[n.index + 1])
    [] IsConst(n) -> FromConstant(n.value)
    [] IsOp(n)    -> Combine(n.op, elems[n.lhs], elems[n.rhs])

FailsAtLast(g) ==   \* a slip: off by one
  IsInput(circuit.gates[g]) /\ circuit.gates[g].index + 2 \notin DOMAIN with

\* The argument of that number was not given; or, in a debug build, the noise does
\* not fit.
Fails(g) ==
  LET n == circuit.gates[g] IN
  \/ IsInput(n) /\ n.index + 1 \notin DOMAIN with
  \/ IsOp(n) /\ OverflowChecks
       /\ NoiseOverflows(n.op, elems[n.lhs].noise, elems[n.rhs].noise)

\* MockNoise::update; Noiseless has nothing to update.
Update(noise, g) ==
  IF Mock /\ noise >= max_so_far THEN max_so_far' = noise /\ index' = g
  ELSE UNCHANGED <<max_so_far, index>>

Exceeds(noise) == Mock /\ noise >= max_so_far /\ noise > backend.noise_budget

\* A gate is evaluated: what becomes of it, in both loops.
Evaluate(g) ==
  LET element == Evaluated(g) IN
  /\ ~ Fails(g)
  /\ Update(element.noise, g)
  /\ ~ Exceeds(element.noise)
  /\ elems' = [h \in DOMAIN elems \cup {g} |-> IF h = g THEN element ELSE elems[h]]
  /\ UNCHANGED <<backend, calls, call, circuit, with, verdict, results>>

Exceed(g) ==
  LET element == Evaluated(g) IN
  /\ ~ Fails(g)
  /\ Update(element.noise, g)
  /\ Exceeds(element.noise)
  /\ verdict' = "NoiseBudgetExceeded"
  /\ UNCHANGED <<backend, calls, call, circuit, with, elems, walkVars, results>>

Panic ==
  /\ verdict' = "panic"
  /\ UNCHANGED <<backend, max_so_far, index, calls, call, circuit, with, elems,
                 walkVars, results>>

-----------------------------------------------------------------------------
\* Noise::new(budget).
ResetNever == UNCHANGED <<max_so_far, index>>   \* a slip
Reset == IF Mock THEN max_so_far' = 0 /\ index' = 0 ELSE UNCHANGED <<max_so_far, index>>

\* A call, which validate_same_length refuses or lets begin.  After a panic there
\* is no program to make another.
Ready == verdict \notin {"running", "panic"} /\ calls < MaxCalls

Receive(how, c, args) ==
  /\ Ready
  /\ calls' = calls + 1 /\ call' = how
  /\ circuit' = c /\ with' = args
  /\ elems' = << >> /\ results' = << >>

\* The backend computes modulo the circuit's modulus from then on.
TakeModulusOnce(q) ==   \* a slip: it keeps the first
  backend' = IF backend.plain_text_modulus = 1 THEN [backend EXCEPT !.plain_text_modulus = q]
             ELSE backend
TakeModulus(q) == backend' = [backend EXCEPT !.plain_text_modulus = q]

\* set_plain_text_modulus is public too; a modulus of zero it refuses.  Between calls
\* the results of the last one are the program's.
SetPlainTextModulus(q) ==
  /\ Ready
  /\ TakeModulus(q)
  /\ verdict' = "none"
  /\ UNCHANGED <<max_so_far, index, calls, call, circuit, with, elems, walkVars, results>>

Refuse(how, c, args) ==
  /\ Receive(how, c, args)
  /\ NumInputs(c) # Len(args)
  /\ verdict' = "InvalidInputLen"
  /\ IF how = "eval_outputs" THEN Reset ELSE UNCHANGED <<max_so_far, index>>
  /\ UNCHANGED <<backend, walkVars>>

Eval(c, args) ==
  /\ Receive("eval", c, args)
  /\ NumInputs(c) = Len(args)
  /\ TakeModulus(c.plain_text_modulus)
  /\ Reset
  /\ verdict' = "running"
  /\ at' = 1
  /\ UNCHANGED <<roots, current, dfs_stack>>

EvalOutputs(c, args) ==
  /\ Receive("eval_outputs", c, args)
  /\ NumInputs(c) = Len(args)
  /\ TakeModulus(c.plain_text_modulus)
  /\ Reset
  /\ verdict' = "running"
  /\ IF c.outputs = << >> THEN current' = 0 /\ roots' = << >>
     ELSE current' = Head(c.outputs) /\ roots' = Tail(c.outputs)
  /\ dfs_stack' = << >>
  /\ UNCHANGED at

-----------------------------------------------------------------------------
\* The loop of eval.
InEval == verdict = "running" /\ call = "eval"

EvalGate ==
  /\ InEval /\ at \in DOMAIN circuit.gates
  /\ Evaluate(at)
  /\ at' = at + 1
  /\ UNCHANGED <<roots, current, dfs_stack>>

EvalStops ==
  /\ InEval /\ at \in DOMAIN circuit.gates
  /\ Exceed(at) \/ (Fails(at) /\ Panic)

EvalAnswersEarly ==   \* a slip: the last gate is forgotten
  /\ InEval /\ at + 1 \notin DOMAIN circuit.gates
  /\ verdict' = "ok"
  /\ results' = elems
  /\ UNCHANGED <<backend, max_so_far, index, calls, call, circuit, with, elems, walkVars>>

EvalAnswers ==
  /\ InEval /\ at \notin DOMAIN circuit.gates
  /\ verdict' = "ok"
  /\ results' = elems
  /\ UNCHANGED <<backend, max_so_far, index, calls, call, circuit, with, elems, walkVars>>

\* The loop of eval_with_iterative_traversal: a node at hand that is evaluated is
\* dropped.
InWalk == verdict = "running" /\ call = "eval_outputs"
IsEvaluated(g) == g \in DOMAIN elems

WalkTo(node, stack) ==
  /\ current' = node /\ dfs_stack' = stack
  /\ UNCHANGED <<backend, max_so_far, index, calls, call, circuit, with, elems, at,
                 verdict, results>>

DropEvaluated ==
  /\ InWalk /\ current # 0
  /\ IsEvaluated(current)
  /\ WalkTo(0, dfs_stack)
  /\ UNCHANGED roots

\* An operation goes back on the stack below its right operand, if that one is
\* missing; the left one, if missing, is next.
MissingRight(n) == IF IsEvaluated(n.rhs) THEN << >> ELSE <<n.rhs>>

DescendStays ==   \* a slip: the operation stays at hand
  /\ InWalk /\ current # 0 /\ ~ IsEvaluated(current)
  /\ LET n == circuit.gates[current] IN
       /\ ~ \A o \in Operands(n) : IsEvaluated(o)
       /\ WalkTo(current, dfs_stack)
  /\ UNCHANGED roots

Descend ==
  /\ InWalk /\ current # 0 /\ ~ IsEvaluated(current)
  /\ LET n == circuit.gates[current] IN
       /\ ~ \A o \in Operands(n) : IsEvaluated(o)
       /\ WalkTo(IF IsEvaluated(n.lhs) THEN 0 ELSE n.lhs,
                 dfs_stack \o <<current>> \o MissingRight(n))
  /\ UNCHANGED roots

ReadyNode ==
  /\ InWalk /\ current # 0 /\ ~ IsEvaluated(current)
  /\ \A o \in Operands(circuit.gates[current]) : IsEvaluated(o)

EvaluateNode ==
  /\ ReadyNode
  /\ Evaluate(current)
  /\ current' = 0
  /\ UNCHANGED <<at, roots, dfs_stack>>

WalkStops ==
  /\ ReadyNode
  /\ Exceed(current) \/ (Fails(current) /\ Panic)

PopNode ==
  /\ InWalk /\ current = 0 /\ dfs_stack # << >>
  /\ WalkTo(dfs_stack[Len(dfs_stack)], SubSeq(dfs_stack, 1, Len(dfs_stack) - 1))
  /\ UNCHANGED roots

NextRoot ==
  /\ InWalk /\ current = 0 /\ dfs_stack = << >>
  /\ roots # << >>
  /\ WalkTo(0, <<Head(roots)>>)
  /\ roots' = Tail(roots)

\* The elements of the outputs are taken out of the map, one by one: of a gate that
\* is an output twice there is none left.
Walked == InWalk /\ current = 0 /\ dfs_stack = << >> /\ roots = << >>

OutputsTwice == \E i, j \in DOMAIN circuit.outputs :
                  i # j /\ circuit.outputs[i] = circuit.outputs[j]

WalkAnswers ==
  /\ Walked /\ ~ OutputsTwice
  /\ verdict' = "ok"
  /\ results' = [i \in DOMAIN circuit.outputs |-> elems[circuit.outputs[i]]]
  /\ UNCHANGED <<backend, max_so_far, index, calls, call, circuit, with, elems, walkVars>>

WalkPanics == Walked /\ OutputsTwice /\ Panic

-----------------------------------------------------------------------------
GivenCircuits == {GivenCircuit(c, q) : c \in Circuits, q \in Moduli}

Calls ==
  \/ \E c \in GivenCircuits, args \in Arguments :
       \/ \E how \in {"eval", "eval_outputs"} : Refuse(how, c, args)
       \/ Eval(c, args)
       \/ EvalOutputs(c, args)
  \/ \E q \in Moduli : SetPlainTextModulus(q)

Steps ==
  \/ EvalGate \/ EvalStops \/ EvalAnswers
  \/ DropEvaluated \/ Descend \/ EvaluateNode \/ WalkStops \/ PopNode \/ NextRoot
  \/ WalkAnswers \/ WalkPanics

BackendNext == Calls \/ Steps

BackendSpec == BackendInit /\ [][BackendNext]_backendVars /\ WF_backendVars(Steps)

-----------------------------------------------------------------------------
Gates == DOMAIN circuit.gates

Held == [kind : {"PlainModQ", "MockFHE"}, noise_budget : Nat, plain_text_modulus : Word \ {0}]
Elem == [value : Word, depth : Nat, noise : Nat]

BackendTypeOK ==
  /\ backend \in Held
  /\ max_so_far \in Nat /\ index \in Nat
  /\ calls \in 0 .. MaxCalls /\ call \in {"eval", "eval_outputs"}
  /\ DOMAIN elems \subseteq Gates /\ \A g \in DOMAIN elems : elems[g] \in Elem
  /\ at \in Nat \ {0}
  /\ roots \in Seq(Nat) /\ current \in Nat /\ dfs_stack \in Seq(Nat)
  /\ verdict \in {"none", "running", "ok", "InvalidInputLen", "NoiseBudgetExceeded", "panic"}

\* What the call is to evaluate: everything, or what the outputs need.
Asked == IF call = "eval" THEN Gates ELSE Live(circuit.gates, Range(circuit.outputs))
\* The gate that each result belongs to.
Answered == IF call = "eval" THEN [g \in Gates |-> g] ELSE circuit.outputs

\* What the gates compute on unbounded integers.  An argument that was not given counts
\* as 0: no gate that is evaluated has one.
NodeMeaning(n, value) ==
  CASE IsInput(n) -> IF n.index + 1 \in DOMAIN with THEN with[n.index + 1] ELSE 0
    [] IsConst(n) -> n.value
    [] IsOp(n)    -> Exact(n.op, value[n.lhs], value[n.rhs])

Meaning ==
  LET value[g \in Gates] == NodeMeaning(circuit.gates[g], value)
  IN  value

\* "Evaluates circuits in plaintext modular arithmetic" (README.md:119): every result
\* is what its gate computes, modulo the circuit's own modulus, whichever backend,
\* whichever way, and whatever modulus the backend had before.
ResultsRight ==
  verdict = "ok" =>
    /\ DOMAIN results = DOMAIN Answered
    /\ \A i \in DOMAIN Answered :
         results[i].value = Meaning[Answered[i]] % circuit.plain_text_modulus

\* However much is shared, the multiplicative depth that the mock backend computes gate
\* by gate, and the one that the analysis of the circuit reports, is the most
\* multiplications on one path to an input or constant; and the reported gate depth is
\* the most operations on one path, which may be another path.
DepthsAreHeaviestPaths ==
  verdict = "ok" =>
    LET depth == Analyse(circuit).depth_analysis IN
    /\ \A i \in DOMAIN circuit.outputs :
         /\ depth.mul[i] = Heaviest(circuit, circuit.outputs[i], IsMul)
         /\ depth.gate[i] = Heaviest(circuit, circuit.outputs[i], IsOp)
    /\ Mock => \A i \in DOMAIN results :
                 results[i].depth = Heaviest(circuit, Answered[i], IsMul)

\* The noise of the gates, on unbounded numbers.
NodeNoise(n, noise) ==
  CASE IsInput(n) -> ENC_NOISE
    [] IsConst(n) -> 0
    [] IsOp(n)    -> ExactNoise(n.op, noise[n.lhs], noise[n.rhs])

Noise ==
  LET noise[g \in Gates] == NodeNoise(circuit.gates[g], noise)
  IN  noise

\* "Exceeding the noise budget returns an error" (README.md:120): a call is refused
\* exactly if a gate it is to evaluate has more noise than the budget, and neither
\* for a gate that only other outputs need nor for what an earlier call has met.
\* "The max and index values" (mock_fhe.rs:124) that the tracker is left with are those
\* of the last call: a gate of it that has the most noise.
BudgetVerdict ==
  /\ Mock /\ verdict \in {"ok", "NoiseBudgetExceeded"} =>
       (verdict = "ok" <=> \A g \in Asked : Noise[g] <= backend.noise_budget)
  /\ Mock /\ verdict = "ok" =>
       /\ \A g \in Asked : Noise[g] <= max_so_far
       /\ Asked # {} => index \in Asked /\ Noise[index] = max_so_far

\* Whichever way and in whichever call, an element is that of its gate for the
\* arguments of this call, made of the elements of its operands, which are there.
EachFromItsOperands ==
  verdict \in {"running", "ok"} =>
    \A g \in DOMAIN elems :
      /\ g \in Gates /\ Operands(circuit.gates[g]) \subseteq DOMAIN elems
      /\ ~ Fails(g) /\ elems[g] = Evaluated(g)

\* Every element of a call is a residue of the modulus of its circuit, whichever
\* modulus the backend computed with in the calls before.
ReducedForThisCircuit ==
  verdict \in {"running", "ok"} =>
    \A g \in DOMAIN elems : elems[g].value \in 0 .. circuit.plain_text_modulus - 1

\* No element of a call that goes on, or is answered, has more noise than the budget,
\* although only noise that exceeds the maximum so far is compared with it.
BudgetRespected ==
  Mock /\ verdict \in {"running", "ok"} =>
    \A g \in DOMAIN elems : elems[g].noise <= backend.noise_budget

\* "eliminates all the unused/unreachable Exprs" (iterative.rs:36-37), and nothing
\* else: what has been evaluated in the end is what was asked.
EvaluatesAsked ==
  /\ verdict \in {"running", "ok"} => DOMAIN elems \subseteq Asked
  /\ verdict = "ok" => DOMAIN elems = Asked

\* A circuit with the arguments 0 to n - 1 and no output twice is evaluated without a
\* panic, unless a build that checks overflow meets noise that a usize does not hold.
Evaluable ==
  /\ \A g \in Gates : IsInput(circuit.gates[g]) => circuit.gates[g].index < NumInputs(circuit)
  /\ ~ OutputsTwice
NoiseTooGreat == Mock /\ OverflowChecks /\ \E g \in Asked : Noise[g] >= NoiseWords
EvaluableNeverPanics == verdict = "panic" => ~ Evaluable \/ NoiseTooGreat

\* Every call is answered.
CallsAnswered == verdict = "running" ~> verdict # "running"
=============================================================================
