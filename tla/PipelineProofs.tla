---------------------------- MODULE PipelineProofs ----------------------------
(* What holds of every program from end to end: the results are those of the *)
(* requested expressions, and in a mode that is strict about inputs a program *)
(* that gives what it declared gets them.                                     *)
EXTENDS Pipeline, CompilerProofs

\* Until the call the backend has done nothing.  The call is about the circuit that was
\* compiled, and is refused for the number of arguments or begun in its modulus.
CallHeld ==
  /\ backend \in Evaluation!Held
  /\ \E b \in Backends : backend.kind = b.kind /\ backend.noise_budget = b.noise_budget
  /\ calls \in {0, 1}
  /\ calls = 0 => eval_verdict = "none"
  /\ calls = 1 =>
       /\ verdict = "ok" /\ circuit = CompiledCircuit /\ call = "eval_outputs"
       /\ with \in Seq(Word)
       /\ eval_verdict # "none"
       /\ eval_verdict = "InvalidInputLen"
            <=> Len(with) # Cardinality(Evaluation!InputGates(gates))
       /\ eval_verdict # "InvalidInputLen" => backend.plain_text_modulus = Modulus

Running == eval_verdict = "running"

\* Every output is evaluated, at hand, on the stack, or has still its turn.
WalkHeld ==
  Running =>
    /\ eval_roots \in Seq(DOMAIN gates) /\ eval_stack \in Seq(DOMAIN gates)
    /\ eval_current \in DOMAIN gates \cup {0}
    /\ Range(outputs) \subseteq DOMAIN elems \cup ({eval_current} \ {0})
                                  \cup Range(eval_stack) \cup Range(eval_roots)
    /\ DOMAIN elems \subseteq DOMAIN gates

\* The noise met so far is within the budget.
NoiseHeld ==
  Running =>
    /\ \A g \in DOMAIN elems : elems[g].noise \in Nat
    /\ Evaluation!Mock =>
         /\ max_so_far \in Nat /\ max_so_far <= backend.noise_budget
         /\ \A g \in DOMAIN elems : elems[g].noise <= max_so_far

PipelineInv ==
  /\ CompilerInv /\ OutputsLowered
  /\ CallHeld /\ WalkHeld /\ NoiseHeld

-----------------------------------------------------------------------------
\* The backend's own copies of the operators of Dag mean the same.
LEMMA EvaluationOperators ==
  /\ \A n : Evaluation!Operands(n) = Operands(n)
  /\ \A n : /\ Evaluation!IsInput(n) <=> IsInput(n)
            /\ Evaluation!IsConst(n) <=> IsConst(n)
            /\ Evaluation!IsOp(n) <=> IsOp(n)
  /\ \A op, x, y : Evaluation!MachineOp(op, x, y) = MachineOp(op, x, y)
  /\ Evaluation!Word = Word
  /\ \A S : Evaluation!Cardinality(S) = Cardinality(S)
<1>1. \A op, x, y : Evaluation!Exact(op, x, y) = Exact(op, x, y)
  BY DEF Evaluation!Exact, Exact
<1>2. \A S : Evaluation!Cardinality(S) = Cardinality(S)
  BY DEF Evaluation!Cardinality, Cardinality
<1> QED
  BY <1>1, <1>2 DEF Evaluation!Operands, Operands, Evaluation!IsInput, IsInput,
     Evaluation!IsConst, IsConst, Evaluation!IsOp, IsOp, Evaluation!MachineOp, MachineOp,
     Evaluation!Word, Word

\* The circuit is an ordered arena of nodes.
LEMMA CircuitGiven ==
  ASSUME CompilerInv
  PROVE  /\ gates \in Seq(Node) /\ Topological(gates)
         /\ outputs \in Seq(DOMAIN gates)
         /\ Len(gates) \in Nat /\ DOMAIN gates = 1 .. Len(gates) /\ 0 \notin DOMAIN gates
         /\ \A g \in DOMAIN gates : /\ gates[g] \in Node
                                    /\ Operands(gates[g]) \subseteq DOMAIN gates
                                    /\ Operands(gates[g]) \subseteq 1 .. g - 1
<1>1. gates \in Seq(Node) /\ Topological(gates) /\ outputs \in Seq(DOMAIN gates)
  BY DEF CompilerInv, CompilerTypeOK, GatesTopological
<1>2. Len(gates) \in Nat /\ DOMAIN gates = 1 .. Len(gates)
  BY <1>1, LenProperties
<1>3. \A g \in DOMAIN gates : gates[g] \in Node /\ Operands(gates[g]) \subseteq 1 .. g - 1
  BY <1>1, <1>2, ElementOfSeq DEF Topological
<1>4. \A g \in DOMAIN gates : 1 .. g - 1 \subseteq DOMAIN gates
  BY <1>2
<1> QED
  BY <1>1, <1>2, <1>3, <1>4

\* A running call is the one call, of the compiled circuit.
LEMMA CallAtHand ==
  ASSUME PipelineInv, Running
  PROVE  /\ calls = 1 /\ verdict = "ok" /\ call = "eval_outputs"
         /\ circuit = CompiledCircuit
         /\ circuit.gates = gates /\ circuit.outputs = outputs
         /\ with \in Seq(Word) /\ backend.plain_text_modulus = Modulus
         /\ Len(with) = Cardinality(Evaluation!InputGates(gates))
BY DEF PipelineInv, CallHeld, Running, CompiledCircuit

-----------------------------------------------------------------------------
\* What a step of one part leaves alone.
LEMMA CompiledKept ==
  ASSUME PipelineInv, [Next]_vars
  PROVE  CompilerInv' /\ OutputsLowered'
BY NextInv, OutputsKept DEF PipelineInv

LEMMA CallKept ==
  ASSUME PipelineInv, Running, UNCHANGED <<vars, backend, calls, call, circuit, with>>,
         eval_verdict' \in {"running", "ok", "NoiseBudgetExceeded", "panic"}
  PROVE  CallHeld'
<1>1. /\ gates' = gates /\ verdict' = verdict
      /\ CompiledCircuit' = CompiledCircuit
      /\ Evaluation!InputGates(gates)' = Evaluation!InputGates(gates)
  BY DEF vars, CompiledCircuit, Evaluation!InputGates
<1>2. /\ backend' = backend /\ calls' = calls /\ call' = call /\ circuit' = circuit
      /\ with' = with
  OBVIOUS
<1>3. calls = 1 /\ eval_verdict # "InvalidInputLen"
  BY DEF PipelineInv, CallHeld, Running
<1> QED
  BY <1>1, <1>2, <1>3 DEF PipelineInv, CallHeld, Evaluation!Held

\* A step of the walk that evaluates nothing.
LEMMA WalkToKeeps ==
  ASSUME PipelineInv, Running, UNCHANGED vars,
         NEW node \in DOMAIN gates \cup {0}, NEW stack \in Seq(DOMAIN gates),
         Evaluation!WalkTo(node, stack), eval_roots' \in Seq(DOMAIN gates),
         Range(outputs) \subseteq DOMAIN elems \cup ({node} \ {0})
                                    \cup Range(stack) \cup Range(eval_roots')
  PROVE  PipelineInv'
<1>1. /\ UNCHANGED <<backend, max_so_far, calls, call, circuit, with, elems, eval_verdict>>
      /\ eval_current' = node /\ eval_stack' = stack
  BY DEF Evaluation!WalkTo
<1>2. CompilerInv' /\ OutputsLowered'
  BY CompiledKept
<1>3. CallHeld'
  BY <1>1, CallKept DEF Running
<1>4. gates' = gates /\ outputs' = outputs
  BY DEF vars
<1>5. WalkHeld'
  BY <1>1, <1>4 DEF PipelineInv, WalkHeld, Range
<1>6. NoiseHeld'
  BY <1>1 DEF PipelineInv, NoiseHeld, Running, Evaluation!Mock
<1> QED
  BY <1>2, <1>3, <1>5, <1>6 DEF PipelineInv

\* A step that ends the call.
LEMMA EndKeeps ==
  ASSUME PipelineInv, Running, UNCHANGED <<vars, backend, calls, call, circuit, with>>,
         eval_verdict' \in {"ok", "NoiseBudgetExceeded", "panic"}
  PROVE  PipelineInv'
<1>1. CompilerInv' /\ OutputsLowered'
  BY CompiledKept
<1>2. CallHeld'
  BY CallKept
<1>3. WalkHeld' /\ NoiseHeld'
  BY DEF WalkHeld, NoiseHeld, Running
<1> QED
  BY <1>1, <1>2, <1>3 DEF PipelineInv

-----------------------------------------------------------------------------
LEMMA PipelineInitHolds == PipelineInit => PipelineInv
<1> SUFFICES ASSUME PipelineInit PROVE PipelineInv
  OBVIOUS
<1>1. CompilerInv /\ OutputsLowered
  <2>1. Init
    BY DEF PipelineInit
  <2> QED
    BY <2>1, InitInv DEF Init, OutputsLowered
<1>2. PICK b \in Backends : backend = [kind |-> b.kind, noise_budget |-> b.noise_budget,
                                       plain_text_modulus |-> 1]
  BY DEF PipelineInit, Evaluation!BackendInit
<1>3. b.kind \in {"PlainModQ", "MockFHE"} /\ b.noise_budget \in Nat
  BY PipelineAssumption
<1>4. 1 \in Word \ {0}
  BY WordsAssumption DEF Word
<1>5. calls = 0 /\ eval_verdict = "none"
  BY DEF PipelineInit, Evaluation!BackendInit
<1>6. CallHeld
  BY <1>2, <1>3, <1>4, <1>5 DEF CallHeld, Evaluation!Held, Evaluation!Word, Word
<1> QED
  BY <1>1, <1>5, <1>6 DEF PipelineInv, WalkHeld, NoiseHeld, Running

\* Building and compiling happens before the call.
LEMMA BuildOrCompileKeeps ==
  ASSUME PipelineInv, BuildOrCompile
  PROVE  PipelineInv'
<1>1. calls = 0 /\ [Next]_vars /\ UNCHANGED <<backend, calls, eval_verdict>>
  BY DEF BuildOrCompile, evalVars
<1>2. CompilerInv' /\ OutputsLowered'
  BY <1>1, CompiledKept
<1>3. eval_verdict' = "none"
  BY <1>1 DEF PipelineInv, CallHeld
<1>4. CallHeld'
  BY <1>1, <1>3 DEF PipelineInv, CallHeld, Evaluation!Held
<1> QED
  BY <1>2, <1>3, <1>4 DEF PipelineInv, WalkHeld, NoiseHeld, Running

\* The call is refused, or it begins with the first output at hand.
LEMMA CallBackendKeeps ==
  ASSUME PipelineInv, CallBackend
  PROVE  PipelineInv'
<1> DEFINE c == CompiledCircuit
<1>1. PICK args \in Arguments : \/ Evaluation!Refuse("eval_outputs", c, args)
                                \/ Evaluation!EvalOutputs(c, args)
  BY DEF CallBackend
<1>2. verdict = "ok" /\ UNCHANGED vars
  BY DEF CallBackend
<1>3. Evaluation!Receive("eval_outputs", c, args)
  BY <1>1 DEF Evaluation!Refuse, Evaluation!EvalOutputs
<1>4. /\ calls = 0 /\ calls' = 1 /\ call' = "eval_outputs" /\ circuit' = c /\ with' = args
      /\ elems' = << >>
  BY <1>3 DEF Evaluation!Receive, Evaluation!Ready, PipelineInv, CallHeld
<1>5. CompilerInv' /\ OutputsLowered'
  BY <1>2, CompiledKept
<1>6. /\ gates' = gates /\ outputs' = outputs /\ verdict' = verdict
      /\ CompiledCircuit' = c
      /\ Evaluation!InputGates(gates)' = Evaluation!InputGates(gates)
  BY <1>2 DEF vars, CompiledCircuit, Evaluation!InputGates
<1>7. with' \in Seq(Word)
  BY <1>4, PipelineAssumption
<1>8. Evaluation!NumInputs(c) = Cardinality(Evaluation!InputGates(gates))
  BY EvaluationOperators DEF Evaluation!NumInputs, CompiledCircuit
<1>9. CASE Evaluation!Refuse("eval_outputs", c, args)
  <2>1. /\ eval_verdict' = "InvalidInputLen" /\ backend' = backend
        /\ Len(args) # Cardinality(Evaluation!InputGates(gates))
    BY <1>8, <1>9 DEF Evaluation!Refuse
  <2>2. CallHeld'
    <3>1. /\ backend' \in Evaluation!Held
          /\ \E b \in Backends : /\ backend'.kind = b.kind
                                 /\ backend'.noise_budget = b.noise_budget
      BY <2>1 DEF PipelineInv, CallHeld
    <3>2. (backend \in Evaluation!Held)'
      BY <3>1 DEF Evaluation!Held
    <3> HIDE DEF c
    <3> QED
      BY <1>2, <1>4, <1>6, <1>7, <2>1, <3>1, <3>2 DEF CallHeld
  <2> QED
    BY <1>5, <2>1, <2>2 DEF PipelineInv, WalkHeld, NoiseHeld, Running
<1>10. CASE Evaluation!EvalOutputs(c, args)
  <2>1. /\ eval_verdict' = "running" /\ eval_stack' = << >>
        /\ Len(args) = Cardinality(Evaluation!InputGates(gates))
        /\ Evaluation!TakeModulus(c.plain_text_modulus) /\ Evaluation!Reset
        /\ IF c.outputs = << >> THEN eval_current' = 0 /\ eval_roots' = << >>
           ELSE eval_current' = Head(c.outputs) /\ eval_roots' = Tail(c.outputs)
    BY <1>8, <1>10 DEF Evaluation!EvalOutputs
  <2>2. /\ backend' = [backend EXCEPT !.plain_text_modulus = Modulus]
        /\ Modulus \in Word \ {0}
    BY <2>1, WordsAssumption DEF Evaluation!TakeModulus, CompiledCircuit, Word
  <2>3. /\ backend' \in Evaluation!Held /\ backend'.plain_text_modulus = Modulus
        /\ backend'.kind = backend.kind /\ backend'.noise_budget = backend.noise_budget
    BY <2>2, EvaluationOperators DEF PipelineInv, CallHeld, Evaluation!Held
  <2>4. CallHeld'
    <3>1. \E b \in Backends : backend'.kind = b.kind /\ backend'.noise_budget = b.noise_budget
      BY <2>3 DEF PipelineInv, CallHeld
    <3>2. (backend \in Evaluation!Held)'
      BY <2>3 DEF Evaluation!Held
    <3> HIDE DEF c
    <3> QED
      BY <1>2, <1>4, <1>6, <1>7, <2>1, <2>3, <3>1, <3>2 DEF CallHeld
  <2>5. outputs \in Seq(DOMAIN gates) /\ 0 \notin DOMAIN gates
    BY CircuitGiven DEF PipelineInv
  <2>6. WalkHeld'
    <3>1. c.outputs = outputs
      BY DEF CompiledCircuit
    <3>2. eval_stack' \in Seq(DOMAIN gates) /\ Range(eval_stack') = {} /\ DOMAIN elems' = {}
      BY <1>4, <2>1 DEF Range
    <3>3. /\ eval_roots' \in Seq(DOMAIN gates) /\ eval_current' \in DOMAIN gates \cup {0}
          /\ Range(outputs) \subseteq ({eval_current'} \ {0}) \cup Range(eval_roots')
      <4>1. CASE outputs = << >>
        BY <2>1, <3>1, <4>1 DEF Range
      <4>2. CASE outputs # << >>
        <5>1. /\ Head(outputs) \in DOMAIN gates /\ Tail(outputs) \in Seq(DOMAIN gates)
              /\ Range(outputs) = {Head(outputs)} \cup Range(Tail(outputs))
          BY <4>2, <2>5, HeadTailRange
        <5>2. eval_current' = Head(outputs) /\ eval_roots' = Tail(outputs)
          BY <2>1, <3>1, <4>2
        <5> QED
          BY <2>5, <5>1, <5>2
      <4> QED
        BY <4>1, <4>2
    <3> QED
      BY <1>6, <3>2, <3>3 DEF WalkHeld, Range
  <2>7. NoiseHeld'
    <3>1. (backend.noise_budget \in Nat)' /\ DOMAIN elems' = {}
      BY <1>4, <2>3 DEF Evaluation!Held
    <3>2. Evaluation!Mock' => max_so_far' = 0
      BY <2>1, <2>3 DEF Evaluation!Reset, Evaluation!Mock
    <3> QED
      BY <3>1, <3>2 DEF NoiseHeld
  <2> QED
    BY <1>5, <2>4, <2>6, <2>7 DEF PipelineInv
<1> QED
  BY <1>1, <1>9, <1>10

-----------------------------------------------------------------------------
\* The steps of the call.
LEMMA NotInEval ==
  ASSUME PipelineInv
  PROVE  ~ Evaluation!InEval
BY DEF PipelineInv, CallHeld, Evaluation!InEval

LEMMA DropEvaluatedHolds ==
  ASSUME PipelineInv, Evaluation!DropEvaluated, UNCHANGED vars
  PROVE  PipelineInv'
<1>1. /\ Running /\ eval_current \in DOMAIN elems
      /\ Evaluation!WalkTo(0, eval_stack) /\ eval_roots' = eval_roots
  BY DEF Evaluation!DropEvaluated, Evaluation!InWalk, Evaluation!IsEvaluated, Running
<1>2. /\ eval_stack \in Seq(DOMAIN gates) /\ eval_roots' \in Seq(DOMAIN gates)
      /\ Range(outputs) \subseteq DOMAIN elems \cup ({0} \ {0})
                                    \cup Range(eval_stack) \cup Range(eval_roots')
  BY <1>1 DEF PipelineInv, WalkHeld
<1> QED
  BY <1>1, <1>2, WalkToKeeps

LEMMA DescendHolds ==
  ASSUME PipelineInv, Evaluation!Descend, UNCHANGED vars
  PROVE  PipelineInv'
<1> DEFINE n == gates[eval_current]
           left == IF Evaluation!IsEvaluated(n.lhs) THEN 0 ELSE n.lhs
           prior == eval_stack \o <<eval_current>>
           stack == prior \o Evaluation!MissingRight(n)
<1>1. Running /\ eval_current # 0 /\ eval_roots' = eval_roots
  BY DEF Evaluation!Descend, Evaluation!InWalk, Running
<1>2. circuit.gates = gates
  BY <1>1, CallAtHand
<1>3. /\ Evaluation!WalkTo(left, stack)
      /\ ~ \A o \in Evaluation!Operands(n) : Evaluation!IsEvaluated(o)
  BY <1>2 DEF Evaluation!Descend
<1>4. /\ eval_current \in DOMAIN gates /\ eval_stack \in Seq(DOMAIN gates)
      /\ eval_roots \in Seq(DOMAIN gates)
  BY <1>1 DEF PipelineInv, WalkHeld
<1>5. n.lhs \in DOMAIN gates /\ n.rhs \in DOMAIN gates
  <2>1. n \in Node /\ Operands(n) \subseteq DOMAIN gates
    BY <1>4, CircuitGiven DEF PipelineInv
  <2>2. Operands(n) # {}
    BY <1>3, EvaluationOperators
  <2> QED
    BY <2>1, <2>2, NodeKinds
<1>6. prior \in Seq(DOMAIN gates) /\ Range(prior) = Range(eval_stack) \cup {eval_current}
  BY <1>4, RangeOfPush
<1>7. stack \in Seq(DOMAIN gates) /\ Range(prior) \subseteq Range(stack)
  <2> HIDE DEF prior, n
  <2>1. CASE Evaluation!IsEvaluated(n.rhs)
    BY <1>6, <2>1, ConcatEmptySeq DEF Evaluation!MissingRight
  <2>2. CASE ~ Evaluation!IsEvaluated(n.rhs)
    <3>1. stack = prior \o <<n.rhs>>
      BY <2>2 DEF Evaluation!MissingRight
    <3>2. /\ prior \o <<n.rhs>> \in Seq(DOMAIN gates)
          /\ Range(prior \o <<n.rhs>>) = Range(prior) \cup {n.rhs}
      BY <1>5, <1>6, RangeOfPush
    <3> QED
      BY <3>1, <3>2
  <2> QED
    BY <2>1, <2>2
<1>8. left \in DOMAIN gates \cup {0}
  BY <1>5
<1> HIDE DEF left, stack, prior
<1>9. Range(outputs) \subseteq DOMAIN elems \cup ({left} \ {0})
                                 \cup Range(stack) \cup Range(eval_roots')
  BY <1>1, <1>6, <1>7 DEF PipelineInv, WalkHeld
<1> QED
  BY <1>1, <1>3, <1>4, <1>7, <1>8, <1>9, WalkToKeeps

LEMMA PopNodeHolds ==
  ASSUME PipelineInv, Evaluation!PopNode, UNCHANGED vars
  PROVE  PipelineInv'
<1> DEFINE top == eval_stack[Len(eval_stack)]
           rest == SubSeq(eval_stack, 1, Len(eval_stack) - 1)
<1>1. /\ Running /\ eval_current = 0 /\ eval_stack # << >>
      /\ Evaluation!WalkTo(top, rest) /\ eval_roots' = eval_roots
  BY DEF Evaluation!PopNode, Evaluation!InWalk, Running
<1>2. /\ eval_stack \in Seq(DOMAIN gates) /\ eval_roots' \in Seq(DOMAIN gates)
      /\ Range(outputs) \subseteq DOMAIN elems \cup Range(eval_stack) \cup Range(eval_roots')
  BY <1>1 DEF PipelineInv, WalkHeld
<1>3. /\ top \in DOMAIN gates /\ rest \in Seq(DOMAIN gates)
      /\ Range(eval_stack) = {top} \cup Range(rest)
  BY <1>1, <1>2, TopAndRestRange
<1>4. 0 \notin DOMAIN gates
  BY CircuitGiven DEF PipelineInv
<1> HIDE DEF top, rest
<1>5. Range(outputs) \subseteq DOMAIN elems \cup ({top} \ {0})
                                 \cup Range(rest) \cup Range(eval_roots')
  BY <1>2, <1>3, <1>4
<1> QED
  BY <1>1, <1>2, <1>3, <1>5, WalkToKeeps

LEMMA NextRootHolds ==
  ASSUME PipelineInv, Evaluation!NextRoot, UNCHANGED vars
  PROVE  PipelineInv'
<1> DEFINE r == Head(eval_roots)
<1>1. /\ Running /\ eval_current = 0 /\ eval_stack = << >> /\ eval_roots # << >>
      /\ Evaluation!WalkTo(0, <<r>>) /\ eval_roots' = Tail(eval_roots)
  BY DEF Evaluation!NextRoot, Evaluation!InWalk, Running
<1>2. /\ eval_roots \in Seq(DOMAIN gates) /\ Range(eval_stack) = {}
      /\ Range(outputs) \subseteq DOMAIN elems \cup Range(eval_stack) \cup Range(eval_roots)
  BY <1>1 DEF PipelineInv, WalkHeld, Range
<1>3. /\ r \in DOMAIN gates /\ Tail(eval_roots) \in Seq(DOMAIN gates)
      /\ Range(eval_roots) = {r} \cup Range(Tail(eval_roots))
  BY <1>1, <1>2, HeadTailRange
<1> HIDE DEF r
<1>4. <<r>> \in Seq(DOMAIN gates) /\ Range(<<r>>) = {r}
  BY <1>3 DEF Range
<1>5. Range(outputs) \subseteq DOMAIN elems \cup ({0} \ {0})
                                 \cup Range(<<r>>) \cup Range(eval_roots')
  BY <1>1, <1>2, <1>3, <1>4
<1> QED
  BY <1>1, <1>3, <1>4, <1>5, WalkToKeeps

-----------------------------------------------------------------------------
\* A gate whose turn has come has its operands evaluated.
LEMMA NodeAtHand ==
  ASSUME PipelineInv, Evaluation!ReadyNode
  PROVE  /\ Running /\ eval_current \in DOMAIN gates
         /\ gates[eval_current] \in Node
         /\ Operands(gates[eval_current]) \subseteq DOMAIN elems
         /\ circuit.gates = gates
<1>1. /\ Running /\ eval_current # 0
      /\ \A o \in Evaluation!Operands(circuit.gates[eval_current]) :
           Evaluation!IsEvaluated(o)
  BY DEF Evaluation!ReadyNode, Evaluation!InWalk, Running
<1>2. eval_current \in DOMAIN gates /\ circuit.gates = gates
  BY <1>1, CallAtHand DEF PipelineInv, WalkHeld
<1> QED
  BY <1>1, <1>2, CircuitGiven, EvaluationOperators DEF PipelineInv, Evaluation!IsEvaluated

\* What the backend computes, by the kind of gate.
LEMMA EvaluatedByKind ==
  ASSUME PipelineInv, Running, NEW g \in DOMAIN gates
  PROVE  LET n == gates[g] IN
         /\ IsInput(n) => Evaluation!Evaluated(g) = Evaluation!FromInput(with[n.index + 1])
         /\ IsConst(n) => Evaluation!Evaluated(g) = Evaluation!FromConstant(n.value)
         /\ IsOp(n) => Evaluation!Evaluated(g)
                         = Evaluation!Combine(n.op, elems[n.lhs], elems[n.rhs])
<1>1. circuit.gates = gates
  BY CallAtHand
<1> QED
  BY <1>1, EvaluationOperators DEF Evaluation!Evaluated, IsInput, IsConst, IsOp

LEMMA NoiseTyped ==
  ASSUME PipelineInv, Running, NEW g \in DOMAIN gates,
         Operands(gates[g]) \subseteq DOMAIN elems
  PROVE  Evaluation!Evaluated(g).noise \in Nat
<1> DEFINE n == gates[g]
<1>1. n \in Node
  BY CircuitGiven DEF PipelineInv
<1>2. CASE IsInput(n)
  BY <1>2, EvaluatedByKind DEF Evaluation!FromInput, Evaluation!Element, Evaluation!ENC_NOISE
<1>3. CASE IsConst(n)
  BY <1>3, EvaluatedByKind DEF Evaluation!FromConstant, Evaluation!Element
<1>4. CASE IsOp(n)
  <2> DEFINE x == elems[n.lhs]
             y == elems[n.rhs]
             e == Evaluation!ExactNoise(n.op, x.noise, y.noise)
  <2>1. x.noise \in Nat /\ y.noise \in Nat
    BY <1>1, <1>4, NodeKinds DEF PipelineInv, NoiseHeld
  <2>2. e \in Int
    <3>1. x.noise * y.noise \in Int
      BY <2>1
    <3> QED
      BY <2>1, <3>1 DEF Evaluation!ExactNoise, Evaluation!Larger, Evaluation!ADD_COST,
                        Evaluation!MUL_COST
  <2>3. Evaluation!Evaluated(g) = Evaluation!Combine(n.op, x, y)
    BY <1>4, EvaluatedByKind
  <2>4. Evaluation!Evaluated(g).noise = IF Evaluation!Mock THEN (e % NoiseWords) ELSE 0
    BY <2>3 DEF Evaluation!Combine, Evaluation!Element
  <2> HIDE DEF e
  <2>5. (e % NoiseWords) \in Nat
    BY <2>2, PipelineAssumption
  <2> QED
    BY <2>4, <2>5
<1> QED
  BY <1>1, <1>2, <1>3, <1>4, NodeKinds

LEMMA EvaluateNodeHolds ==
  ASSUME PipelineInv, Evaluation!EvaluateNode, UNCHANGED vars
  PROVE  PipelineInv'
<1> DEFINE g == eval_current
           noise == Evaluation!Evaluated(g).noise
<1>1. /\ Running /\ g \in DOMAIN gates /\ Operands(gates[g]) \subseteq DOMAIN elems
      /\ Evaluation!Evaluate(g) /\ eval_current' = 0
      /\ UNCHANGED <<eval_roots, eval_stack>>
  BY NodeAtHand DEF Evaluation!EvaluateNode
<1>2. /\ UNCHANGED <<backend, calls, call, circuit, with, eval_verdict>>
      /\ DOMAIN elems' = DOMAIN elems \cup {g}
      /\ elems'[g] = Evaluation!Evaluated(g)
      /\ \A h \in DOMAIN elems : elems'[h] = elems[h] \/ h = g
      /\ Evaluation!Update(noise, g) /\ ~ Evaluation!Exceeds(noise)
  BY <1>1 DEF Evaluation!Evaluate
<1>3. CompilerInv' /\ OutputsLowered'
  BY CompiledKept
<1>4. CallHeld'
  BY <1>1, <1>2, CallKept DEF Running
<1>5. gates' = gates /\ outputs' = outputs
  BY DEF vars
<1>6. WalkHeld'
  BY <1>1, <1>2, <1>5 DEF PipelineInv, WalkHeld, Range
<1>7. noise \in Nat
  BY <1>1, NoiseTyped
<1>8. NoiseHeld'
  <2>1. \A h \in DOMAIN elems' : elems'[h].noise \in Nat
    BY <1>1, <1>2, <1>7 DEF PipelineInv, NoiseHeld
  <2> SUFFICES ASSUME Evaluation!Mock
               PROVE  /\ max_so_far' \in Nat /\ max_so_far' <= backend.noise_budget
                      /\ \A h \in DOMAIN elems' : elems'[h].noise <= max_so_far'
    BY <1>2, <2>1 DEF NoiseHeld, Evaluation!Mock
  <2>2. /\ max_so_far \in Nat /\ max_so_far <= backend.noise_budget
        /\ \A h \in DOMAIN elems : elems[h].noise \in Nat /\ elems[h].noise <= max_so_far
        /\ backend.noise_budget \in Nat
    BY <1>1 DEF PipelineInv, NoiseHeld, CallHeld, Evaluation!Held
  <2>3. CASE noise >= max_so_far
    <3>1. max_so_far' = noise /\ noise <= backend.noise_budget
      BY <1>2, <1>7, <2>2, <2>3 DEF Evaluation!Update, Evaluation!Exceeds
    <3> QED
      BY <1>2, <1>7, <2>2, <2>3, <3>1
  <2>4. CASE noise < max_so_far
    <3>1. max_so_far' = max_so_far
      BY <1>2, <1>7, <2>2, <2>4 DEF Evaluation!Update
    <3> QED
      BY <1>2, <1>7, <2>2, <2>4, <3>1
  <2> QED
    BY <1>7, <2>2, <2>3, <2>4
<1> QED
  BY <1>3, <1>4, <1>6, <1>8 DEF PipelineInv

LEMMA WalkStopsHolds ==
  ASSUME PipelineInv, Evaluation!WalkStops, UNCHANGED vars
  PROVE  PipelineInv'
<1>1. Running
  BY NodeAtHand DEF Evaluation!WalkStops
<1>2. /\ eval_verdict' \in {"NoiseBudgetExceeded", "panic"}
      /\ UNCHANGED <<backend, calls, call, circuit, with>>
  BY DEF Evaluation!WalkStops, Evaluation!Exceed, Evaluation!Panic
<1> QED
  BY <1>1, <1>2, EndKeeps

LEMMA WalkEndsHolds ==
  ASSUME PipelineInv, Evaluation!WalkAnswers \/ Evaluation!WalkPanics, UNCHANGED vars
  PROVE  PipelineInv'
<1>1. /\ Running /\ eval_verdict' \in {"ok", "panic"}
      /\ UNCHANGED <<backend, calls, call, circuit, with>>
  BY DEF Evaluation!WalkAnswers, Evaluation!WalkPanics, Evaluation!Panic,
         Evaluation!Walked, Evaluation!InWalk, Running
<1> QED
  BY <1>1, EndKeeps

LEMMA StutterHolds ==
  ASSUME PipelineInv, UNCHANGED pipelineVars
  PROVE  PipelineInv'
<1>1. UNCHANGED vars /\ UNCHANGED evalVars
  BY DEF pipelineVars
<1>2. CompilerInv' /\ OutputsLowered'
  BY <1>1, CompiledKept
<1>3. /\ gates' = gates /\ outputs' = outputs /\ verdict' = verdict
      /\ CompiledCircuit' = CompiledCircuit
      /\ Evaluation!InputGates(gates)' = Evaluation!InputGates(gates)
  BY <1>1 DEF vars, CompiledCircuit, Evaluation!InputGates
<1>4. CallHeld'
  BY <1>1, <1>3 DEF evalVars, PipelineInv, CallHeld, Evaluation!Held
<1>5. WalkHeld' /\ NoiseHeld'
  BY <1>1, <1>3 DEF evalVars, PipelineInv, WalkHeld, NoiseHeld, Running, Evaluation!Mock,
                    Range
<1> QED
  BY <1>2, <1>4, <1>5 DEF PipelineInv

\* The steps of the program, those of eval left out, which it does not call.
LEMMA PipelineSteps ==
  ASSUME PipelineInv, [PipelineNext]_pipelineVars
  PROVE  \/ BuildOrCompile \/ CallBackend \/ UNCHANGED pipelineVars
         \/ /\ UNCHANGED vars
            /\ \/ Evaluation!DropEvaluated \/ Evaluation!Descend \/ Evaluation!PopNode
               \/ Evaluation!NextRoot \/ Evaluation!EvaluateNode \/ Evaluation!WalkStops
               \/ Evaluation!WalkAnswers \/ Evaluation!WalkPanics
<1>1. ~ Evaluation!EvalGate /\ ~ Evaluation!EvalStops /\ ~ Evaluation!EvalAnswers
  BY NotInEval DEF Evaluation!EvalGate, Evaluation!EvalStops, Evaluation!EvalAnswers
<1> QED
  BY <1>1 DEF PipelineNext, Evaluate, Evaluation!Steps

LEMMA PipelineStepHolds ==
  ASSUME PipelineInv, [PipelineNext]_pipelineVars
  PROVE  PipelineInv'
BY PipelineSteps, BuildOrCompileKeeps, CallBackendKeeps, StutterHolds, DropEvaluatedHolds,
   DescendHolds, PopNodeHolds, NextRootHolds, EvaluateNodeHolds, WalkStopsHolds, WalkEndsHolds

LEMMA PipelineInvariant == PipelineSpec => []PipelineInv
BY PipelineInitHolds, PipelineStepHolds, PTL DEF PipelineSpec

-----------------------------------------------------------------------------
\* Who is refused.

\* In a mode that is strict about inputs there are as many input gates as declared inputs.
LEMMA AllInputsLowered ==
  ASSUME CompilerInv, verdict = "ok", "Input" \in mode
  PROVE  Cardinality({g \in DOMAIN gates : IsInput(gates[g])})
           = Cardinality({e \in Handles : IsInput(arena[e])})
<1> DEFINE D == {e \in Handles : IsInput(arena[e])}
           T == {g \in DOMAIN gates : IsInput(gates[g])}
           f == [e \in D |-> lowered[e]]
<1>1. \A e \in D : e \in DOMAIN lowered
  BY StrictInputsLowered
<1>2. \A e \in D : lowered[e] \in T
  BY <1>1, LoweredInput
<1>3. \A g \in T : \E e \in D : lowered[e] = g
  BY LoweredInput DEF CompilerInv, GatesMirrorExprs
<1>4. \A d, e \in D : lowered[d] = lowered[e] => d = e
  BY <1>1 DEF CompilerInv, GatesMirrorExprs
<1>5. IsFiniteSet(D)
  <2>1. Handles = 1 .. Len(arena) /\ Len(arena) \in Nat
    BY LenProperties DEF CompilerInv, ContextInv, ContextTypeOK, Handles
  <2>2. IsFiniteSet(Handles)
    BY <2>1, FS_Interval
  <2> QED
    BY <2>2, FS_Subset
<1> HIDE DEF D, T
<1>6. f \in Bijection(D, T)
  BY <1>2, <1>3, <1>4 DEF Bijection, Injection, Surjection, IsInjective
<1> HIDE DEF f
<1>7. ExistsBijection(D, T)
  BY <1>6 DEF ExistsBijection
<1>8. Cardinality(T) = Cardinality(D)
  BY <1>5, <1>7, FS_Bijection
<1> QED
  BY <1>8 DEF D, T

\* In a mode strict about inputs a program is refused for the number of its arguments
\* exactly if that is not the number it declared: no declared input is lost on the way to
\* the circuit, none is counted twice, and none is added.
THEOREM DeclaredAreExpected == PipelineSpec => []RefusedForDeclared
<1>1. ASSUME PipelineInv, eval_verdict # "none", "Input" \in mode
      PROVE  eval_verdict = "InvalidInputLen"
               <=> Len(with) # Cardinality({e \in Handles : IsInput(arena[e])})
  <2>1. /\ verdict = "ok"
        /\ eval_verdict = "InvalidInputLen"
             <=> Len(with) # Cardinality(Evaluation!InputGates(gates))
    BY <1>1 DEF PipelineInv, CallHeld
  <2>2. Evaluation!InputGates(gates) = {g \in DOMAIN gates : IsInput(gates[g])}
    BY EvaluationOperators DEF Evaluation!InputGates
  <2> QED
    BY <1>1, <2>1, <2>2, AllInputsLowered DEF PipelineInv
<1>2. PipelineInv => RefusedForDeclared
  BY <1>1 DEF RefusedForDeclared
<1> QED
  BY <1>2, PipelineInvariant, PTL

-----------------------------------------------------------------------------
\* What comes back.

\* Moduli on which a wrapping machine is right: it wraps at a multiple of the modulus, or
\* the program's operations take residues out of range nowhere.
ModulusSafe ==
  \/ DividesWordSize(Modulus)
  \/ \A op \in Ops, x, y \in Residue : ~ Overflows(op, x, y)

Values == Denote(gates, Environment)

ValuesHeld == Running => \A g \in DOMAIN elems : elems[g].value = Values[g]

AnswerHeld ==
  eval_verdict = "ok" =>
    /\ DOMAIN results = DOMAIN outputs
    /\ \A i \in DOMAIN outputs : results[i].value = Values[outputs[i]]

LEMMA EnvironmentGiven ==
  ASSUME with \in Seq(Word)
  PROVE  Environment \in Assignments
<1>1. \A i \in DOMAIN with : with[i] \in Int
  <2>1. \A i \in DOMAIN with : with[i] \in Word
    BY LenProperties, ElementOfSeq
  <2>2. Word \subseteq Int
    BY DEF Word
  <2> QED
    BY <2>1, <2>2
<1>2. \A i \in InputIndices : (IF i + 1 \in DOMAIN with THEN with[i + 1] ELSE 0) \in Int
  BY <1>1
<1> QED
  BY <1>2 DEF Environment, Assignments

LEMMA ValuesEquation ==
  ASSUME PipelineInv, calls = 1
  PROVE  /\ \A g \in DOMAIN gates : Values[g] \in Residue
         /\ \A g \in DOMAIN gates : Values[g] = NodeValue(gates[g], Environment, Values)
<1>1. Environment \in Assignments
  BY EnvironmentGiven DEF PipelineInv, CallHeld
<1>2. gates \in Seq(Node) /\ Topological(gates)
  BY CircuitGiven DEF PipelineInv
<1> QED
  BY <1>1, <1>2, DenoteEquation DEF Values

LEMMA EvaluatedValue ==
  ASSUME PipelineInv, ModulusSafe, Running, NEW g \in DOMAIN gates,
         Operands(gates[g]) \subseteq DOMAIN elems, ~ Evaluation!Fails(g),
         \A o \in Operands(gates[g]) : elems[o].value = Values[o]
  PROVE  Evaluation!Evaluated(g).value = Values[g]
<1> DEFINE n == gates[g]
<1>1. /\ n \in Node /\ Values[g] = NodeValue(n, Environment, Values)
      /\ Operands(n) \subseteq DOMAIN gates
      /\ backend.plain_text_modulus = Modulus /\ circuit.gates = gates
  BY CallAtHand, CircuitGiven, ValuesEquation DEF PipelineInv
<1>2. CASE IsInput(n)
  <2>1. n.index + 1 \in DOMAIN with
    BY <1>1, <1>2, EvaluationOperators DEF Evaluation!Fails
  <2>2. n.index \in InputIndices
    BY <1>1, <1>2 DEF Node, IsInput
  <2>3. Environment[n.index] = with[n.index + 1]
    BY <2>1, <2>2 DEF Environment
  <2>4. Values[g] = with[n.index + 1] % Modulus
    BY <1>1, <1>2, <2>3, NodeKinds DEF NodeValue
  <2>5. Evaluation!Evaluated(g).value = with[n.index + 1] % Modulus
    BY <1>1, <1>2, EvaluatedByKind DEF Evaluation!FromInput, Evaluation!Element
  <2> QED
    BY <2>4, <2>5
<1>3. CASE IsConst(n)
  BY <1>1, <1>3, EvaluatedByKind, NodeKinds
     DEF Evaluation!FromConstant, Evaluation!Element, NodeValue
<1>4. CASE IsOp(n)
  <2> DEFINE x == Values[n.lhs]
             y == Values[n.rhs]
  <2>1. /\ n.op \in BinOp /\ n.op \in Ops
        /\ n.lhs \in DOMAIN gates /\ elems[n.lhs].value = x
        /\ n.rhs \in DOMAIN gates /\ elems[n.rhs].value = y
    BY <1>1, <1>4, NodeKinds, DagAssumption
  <2>2. x \in Residue /\ y \in Residue
    BY <2>1, CallAtHand, ValuesEquation
  <2>3. Values[g] = Exact(n.op, x, y) % Modulus
    BY <1>1, <1>4, NodeKinds DEF NodeValue, RingOp
  <2>4. Evaluation!Evaluated(g) = Evaluation!Combine(n.op, elems[n.lhs], elems[n.rhs])
    BY <1>4, EvaluatedByKind
  <2>5. Evaluation!Evaluated(g).value = MachineOp(n.op, x, y) % Modulus
    BY <1>1, <2>1, <2>4, EvaluationOperators DEF Evaluation!Combine, Evaluation!Element
  <2> HIDE DEF x, y
  <2>6. x \in Word /\ y \in Word /\ Modulus \in Nat \ {0}
    BY <2>2, WordsAssumption DEF Word, Residue
  <2>7. ~ Overflows(n.op, x, y) \/ DividesWordSize(Modulus)
    BY <2>1, <2>2 DEF ModulusSafe
  <2>8. MachineOp(n.op, x, y) % Modulus = Exact(n.op, x, y) % Modulus
    BY <2>1, <2>6, <2>7, MachineOpMeans
  <2> QED
    BY <2>3, <2>5, <2>8
<1> QED
  BY <1>1, <1>2, <1>3, <1>4, NodeKinds

LEMMA ValuesUnchanged ==
  ASSUME UNCHANGED <<vars, with>>
  PROVE  Values' = Values
<1>1. gates' = gates
  BY DEF vars
<1> QED
  BY <1>1 DEF Values, Environment, Denote, NodeValue

LEMMA ValuesKept ==
  ASSUME PipelineInv, ModulusSafe, ValuesHeld, [PipelineNext]_pipelineVars
  PROVE  ValuesHeld'
<1>1. CASE BuildOrCompile
  BY <1>1 DEF BuildOrCompile, evalVars, PipelineInv, CallHeld, ValuesHeld, Running
<1>2. CASE CallBackend
  <2>1. elems' = << >>
    BY <1>2 DEF CallBackend, Evaluation!Refuse, Evaluation!EvalOutputs, Evaluation!Receive
  <2> QED
    BY <2>1 DEF ValuesHeld
<1>3. CASE UNCHANGED vars /\ Evaluation!EvaluateNode
  <2> DEFINE g == eval_current
  <2>1. /\ Running /\ g \in DOMAIN gates /\ Operands(gates[g]) \subseteq DOMAIN elems
        /\ Evaluation!Evaluate(g)
    BY <1>3, NodeAtHand DEF Evaluation!EvaluateNode
  <2>2. /\ DOMAIN elems' = DOMAIN elems \cup {g} /\ with' = with
        /\ elems'[g] = Evaluation!Evaluated(g)
        /\ \A h \in DOMAIN elems : h # g => elems'[h] = elems[h]
        /\ ~ Evaluation!Fails(g)
    BY <2>1 DEF Evaluation!Evaluate
  <2>3. Evaluation!Evaluated(g).value = Values[g]
    BY <2>1, <2>2, EvaluatedValue DEF ValuesHeld
  <2>4. Values' = Values
    BY <1>3, <2>2, ValuesUnchanged
  <2> QED
    BY <2>1, <2>2, <2>3, <2>4 DEF ValuesHeld
<1>4. CASE /\ UNCHANGED <<vars, with>>
           /\ eval_verdict' # "running" \/ UNCHANGED <<elems, eval_verdict>>
  BY <1>4, ValuesUnchanged DEF ValuesHeld, Running
<1>5. CASE UNCHANGED pipelineVars
  BY <1>4, <1>5 DEF pipelineVars, evalVars
<1>6. CASE /\ UNCHANGED vars
           /\ \/ Evaluation!DropEvaluated \/ Evaluation!Descend \/ Evaluation!PopNode
              \/ Evaluation!NextRoot
  BY <1>4, <1>6 DEF Evaluation!DropEvaluated, Evaluation!Descend, Evaluation!PopNode,
     Evaluation!NextRoot, Evaluation!WalkTo
<1>7. CASE /\ UNCHANGED vars
           /\ Evaluation!WalkStops \/ Evaluation!WalkAnswers \/ Evaluation!WalkPanics
  BY <1>4, <1>7 DEF Evaluation!WalkStops, Evaluation!WalkAnswers, Evaluation!WalkPanics,
     Evaluation!Exceed, Evaluation!Panic
<1> QED
  BY <1>1, <1>2, <1>3, <1>5, <1>6, <1>7, PipelineSteps

LEMMA AnswerKept ==
  ASSUME PipelineInv, ValuesHeld, AnswerHeld, [PipelineNext]_pipelineVars
  PROVE  AnswerHeld'
<1>1. CASE BuildOrCompile
  BY <1>1 DEF BuildOrCompile, evalVars, PipelineInv, CallHeld, AnswerHeld
<1>2. CASE CallBackend
  <2>1. eval_verdict' # "ok"
    BY <1>2 DEF CallBackend, Evaluation!Refuse, Evaluation!EvalOutputs
  <2> QED
    BY <2>1 DEF AnswerHeld
<1>3. CASE UNCHANGED pipelineVars
  <2>1. Values' = Values /\ outputs' = outputs
    BY <1>3, ValuesUnchanged DEF pipelineVars, evalVars, vars
  <2> QED
    BY <1>3, <2>1 DEF pipelineVars, evalVars, AnswerHeld
<1>4. CASE UNCHANGED vars /\ Evaluation!WalkAnswers
  <2>1. /\ Running /\ eval_current = 0 /\ eval_stack = << >> /\ eval_roots = << >>
        /\ results' = [i \in DOMAIN circuit.outputs |-> elems[circuit.outputs[i]]]
        /\ with' = with
    BY <1>4 DEF Evaluation!WalkAnswers, Evaluation!Walked, Evaluation!InWalk, Running
  <2>2. Range(outputs) \subseteq DOMAIN elems
    BY <2>1 DEF PipelineInv, WalkHeld, Range
  <2>3. \A i \in DOMAIN outputs : elems[outputs[i]].value = Values[outputs[i]]
    BY <2>1, <2>2 DEF ValuesHeld, Range
  <2>4. circuit.outputs = outputs
    BY <2>1, CallAtHand
  <2>5. Values' = Values /\ outputs' = outputs
    BY <1>4, <2>1, ValuesUnchanged DEF vars
  <2> QED
    BY <2>1, <2>3, <2>4, <2>5 DEF AnswerHeld
<1>5. CASE /\ UNCHANGED vars
           /\ \/ Evaluation!DropEvaluated \/ Evaluation!Descend \/ Evaluation!PopNode
              \/ Evaluation!NextRoot \/ Evaluation!EvaluateNode \/ Evaluation!WalkStops
              \/ Evaluation!WalkPanics
  <2>1. eval_verdict' # "ok"
    BY <1>5 DEF Evaluation!DropEvaluated, Evaluation!Descend, Evaluation!PopNode,
       Evaluation!NextRoot, Evaluation!WalkTo, Evaluation!EvaluateNode, Evaluation!Evaluate,
       Evaluation!WalkStops, Evaluation!Exceed, Evaluation!WalkPanics, Evaluation!Panic,
       Evaluation!ReadyNode, Evaluation!Walked, Evaluation!InWalk
  <2> QED
    BY <2>1 DEF AnswerHeld
<1> QED
  BY <1>1, <1>2, <1>3, <1>4, <1>5, PipelineSteps

\* Whatever a program builds, requests and gives as arguments, whatever was folded, shared
\* or dropped on the way and in whatever order it was evaluated, the i-th result is what
\* the i-th expression it requested stands for.
THEOREM ProgramsCompute ==
  ASSUME ModulusSafe
  PROVE  PipelineSpec => []ProgramComputed
<1>1. PipelineInit => ValuesHeld /\ AnswerHeld
  BY DEF PipelineInit, Evaluation!BackendInit, ValuesHeld, AnswerHeld, Running
<1>2. ASSUME PipelineInv, ValuesHeld, AnswerHeld, [PipelineNext]_pipelineVars
      PROVE  ValuesHeld' /\ AnswerHeld'
  BY <1>2, ValuesKept, AnswerKept
<1>3. ASSUME PipelineInv, AnswerHeld
      PROVE  ProgramComputed
  <2> SUFFICES ASSUME eval_verdict = "ok"
               PROVE  /\ DOMAIN results = DOMAIN output_exprs
                      /\ \A i \in DOMAIN output_exprs :
                           results[i].value = Denote(arena, Environment)[output_exprs[i]]
    BY DEF ProgramComputed
  <2>1. verdict = "ok" /\ with \in Seq(Word)
    BY <1>3 DEF PipelineInv, CallHeld
  <2>2. Environment \in Assignments
    BY <2>1, EnvironmentGiven
  <2>3. /\ DOMAIN outputs = DOMAIN output_exprs
        /\ \A i \in DOMAIN output_exprs : /\ output_exprs[i] \in DOMAIN lowered
                                          /\ outputs[i] = lowered[output_exprs[i]]
    BY <1>3, <2>1, OutputsMean DEF PipelineInv
  <2>4. \A e \in DOMAIN lowered : Values[lowered[e]] = Denote(arena, Environment)[e]
    BY <1>3, <2>2, LoweredValues DEF PipelineInv, Values
  <2> QED
    BY <1>3, <2>3, <2>4 DEF AnswerHeld
<1> QED
  BY <1>1, <1>2, <1>3, PipelineInvariant, PTL DEF PipelineSpec

-----------------------------------------------------------------------------
\* Who meets a panic.

\* The noise that fits, as of Backend: what the costs add to the noise of two elements
\* within the budget is a usize.
NoiseFits ==
  \A b \in Backends :
    b.kind = "MockFHE" =>
      b.noise_budget * b.noise_budget + Evaluation!MUL_COST < NoiseWords

\* A panic is of an argument that a gate asks for and that was not given, or of a gate
\* that is an output twice.
PanicHeld ==
  eval_verdict = "panic" =>
    \/ \E g \in DOMAIN gates : IsInput(gates[g]) /\ gates[g].index + 1 \notin DOMAIN with
    \/ \E i, j \in DOMAIN outputs : i # j /\ outputs[i] = outputs[j]

LEMMA NoOverflow ==
  ASSUME PipelineInv, Running, NoiseFits, Evaluation!Mock,
         NEW l \in DOMAIN elems, NEW r \in DOMAIN elems, NEW op
  PROVE  ~ Evaluation!NoiseOverflows(op, elems[l].noise, elems[r].noise)
<1> DEFINE x == elems[l].noise
           y == elems[r].noise
           b == backend.noise_budget
           square == b * b
           product == x * y
<1>1. /\ x \in Nat /\ y \in Nat /\ b \in Nat /\ max_so_far \in Nat
      /\ x <= max_so_far /\ y <= max_so_far /\ max_so_far <= b
  BY DEF PipelineInv, NoiseHeld, CallHeld, Evaluation!Held
<1>2. square + 5 < NoiseWords
  BY DEF PipelineInv, CallHeld, NoiseFits, Evaluation!Mock, Evaluation!MUL_COST
<1>3. NoiseWords \in Nat
  BY PipelineAssumption
<1> HIDE DEF x, y, b
<1>4. x <= b /\ y <= b
  BY <1>1
<1>5. product <= square /\ product \in Nat /\ square \in Nat
  BY <1>1, <1>4, Products
<1>6. b <= square
  BY <1>1
<1> HIDE DEF square, product
<1>7. CASE op = "Mul"
  <2>1. Evaluation!ExactNoise(op, x, y) = product + 5
    BY <1>7 DEF Evaluation!ExactNoise, Evaluation!MUL_COST, product
  <2>2. ~ Evaluation!ExactNoise(op, x, y) >= NoiseWords
    BY <2>1, <1>2, <1>3, <1>5
  <2> QED
    BY <2>2 DEF Evaluation!NoiseOverflows, x, y
<1>8. CASE op # "Mul"
  <2>1. Evaluation!ExactNoise(op, x, y) = (IF x < y THEN y ELSE x) + 1
    BY <1>8 DEF Evaluation!ExactNoise, Evaluation!ADD_COST, Evaluation!Larger
  <2>2. ~ Evaluation!ExactNoise(op, x, y) >= NoiseWords
    BY <2>1, <1>1, <1>2, <1>3, <1>4, <1>5, <1>6
  <2> QED
    BY <2>2 DEF Evaluation!NoiseOverflows, x, y
<1> QED
  BY <1>7, <1>8

LEMMA PanicKept ==
  ASSUME PipelineInv, PanicHeld, NoiseFits \/ ~ OverflowChecks, [PipelineNext]_pipelineVars
  PROVE  PanicHeld'
<1>1. CASE BuildOrCompile
  BY <1>1 DEF BuildOrCompile, evalVars, PipelineInv, CallHeld, PanicHeld
<1>2. CASE UNCHANGED pipelineVars
  BY <1>2 DEF pipelineVars, vars, evalVars, PanicHeld
<1>3. CASE eval_verdict' # "panic"
  BY <1>3 DEF PanicHeld
<1>4. CASE UNCHANGED vars /\ Evaluation!WalkStops /\ eval_verdict' = "panic"
  <2> DEFINE g == eval_current
             n == gates[g]
  <2>1. /\ Running /\ g \in DOMAIN gates /\ n \in Node
        /\ Operands(n) \subseteq DOMAIN elems /\ circuit.gates = gates
    BY <1>4, NodeAtHand DEF Evaluation!WalkStops
  <2>2. Evaluation!Fails(g) /\ with' = with /\ gates' = gates
    BY <1>4 DEF Evaluation!WalkStops, Evaluation!Exceed, Evaluation!Panic, vars
  <2>3. \/ IsInput(n) /\ n.index + 1 \notin DOMAIN with
        \/ /\ IsOp(n) /\ OverflowChecks
           /\ Evaluation!NoiseOverflows(n.op, elems[n.lhs].noise, elems[n.rhs].noise)
    BY <2>1, <2>2, EvaluationOperators DEF Evaluation!Fails
  <2>4. ~ (IsOp(n) /\ OverflowChecks
             /\ Evaluation!NoiseOverflows(n.op, elems[n.lhs].noise, elems[n.rhs].noise))
    <3> SUFFICES ASSUME IsOp(n), OverflowChecks
                 PROVE  ~ Evaluation!NoiseOverflows(n.op, elems[n.lhs].noise,
                                                    elems[n.rhs].noise)
      OBVIOUS
    <3>1. n.lhs \in DOMAIN elems /\ n.rhs \in DOMAIN elems
      BY <2>1, NodeKinds
    <3>2. CASE Evaluation!Mock
      BY <2>1, <3>1, <3>2, NoOverflow
    <3>3. CASE ~ Evaluation!Mock
      BY <3>3 DEF Evaluation!NoiseOverflows
    <3> QED
      BY <3>2, <3>3
  <2> QED
    BY <2>1, <2>2, <2>3, <2>4 DEF PanicHeld
<1>5. CASE UNCHANGED vars /\ Evaluation!WalkPanics
  <2>1. Running /\ Evaluation!OutputsTwice /\ outputs' = outputs
    BY <1>5 DEF Evaluation!WalkPanics, Evaluation!Walked, Evaluation!InWalk, Running, vars
  <2> QED
    BY <2>1, CallAtHand DEF Evaluation!OutputsTwice, PanicHeld
<1>6. CASE CallBackend
  BY <1>3, <1>6 DEF CallBackend, Evaluation!Refuse, Evaluation!EvalOutputs
<1>7. CASE /\ UNCHANGED vars
           /\ \/ Evaluation!DropEvaluated \/ Evaluation!Descend \/ Evaluation!PopNode
              \/ Evaluation!NextRoot \/ Evaluation!EvaluateNode \/ Evaluation!WalkAnswers
  BY <1>3, <1>7 DEF Evaluation!DropEvaluated, Evaluation!Descend, Evaluation!PopNode,
     Evaluation!NextRoot, Evaluation!WalkTo, Evaluation!EvaluateNode, Evaluation!Evaluate,
     Evaluation!ReadyNode, Evaluation!WalkAnswers, Evaluation!Walked, Evaluation!InWalk
<1> QED
  BY <1>1, <1>2, <1>3, <1>4, <1>5, <1>6, <1>7, PipelineSteps

\* In a mode strict about inputs a program that numbers its arguments without a gap and
\* requests no expression twice meets a panic in no circuit, whatever it builds, if the
\* noise fits a usize or the build lets it wrap.
THEOREM StrictProgramsAnswered ==
  ASSUME NoiseFits \/ ~ OverflowChecks
  PROVE  PipelineSpec => []StrictProgramsNeverPanic
<1>1. PipelineInit => PanicHeld
  BY DEF PipelineInit, Evaluation!BackendInit, PanicHeld
<1>2. ASSUME PipelineInv, PanicHeld, [PipelineNext]_pipelineVars
      PROVE  PanicHeld'
  BY <1>2, PanicKept
<1>3. ASSUME PipelineInv, PanicHeld, eval_verdict = "panic",
             "Input" \in mode, ArgumentsContiguous
      PROVE  \E i, j \in DOMAIN output_exprs : i # j /\ output_exprs[i] = output_exprs[j]
  <2>1. /\ CompilerInv /\ OutputsLowered /\ verdict = "ok" /\ with \in Seq(Word)
        /\ Len(with) = Cardinality(Evaluation!InputGates(gates))
    BY <1>3 DEF PipelineInv, CallHeld
  <2>2. Len(with) = Len(inputs)
    <3>1. Evaluation!InputGates(gates) = {g \in DOMAIN gates : IsInput(gates[g])}
      BY EvaluationOperators DEF Evaluation!InputGates
    <3> QED
      BY <2>1, <3>1, InputsCounted
  <2>3. ASSUME NEW g \in DOMAIN gates, IsInput(gates[g])
        PROVE  gates[g].index + 1 \in DOMAIN with
    <3>1. gates[g].index < Len(inputs)
      BY <1>3, <2>1, <2>3, StrictReach
    <3>2. gates[g].index \in Nat
      <4>1. gates[g] \in Node
        BY <2>1, <2>3, CircuitGiven
      <4> QED
        BY <2>3, <4>1, DagAssumption DEF Node, IsInput
    <3>3. DOMAIN with = 1 .. Len(with) /\ Len(with) \in Nat
      BY <2>1, LenProperties
    <3> QED
      BY <2>2, <3>1, <3>2, <3>3
  <2>4. PICK i, j \in DOMAIN outputs : i # j /\ outputs[i] = outputs[j]
    BY <1>3, <2>3 DEF PanicHeld
  <2>5. /\ DOMAIN outputs = DOMAIN output_exprs
        /\ \A k \in DOMAIN output_exprs : /\ output_exprs[k] \in DOMAIN lowered
                                          /\ outputs[k] = lowered[output_exprs[k]]
    BY <2>1, OutputsMean
  <2>6. output_exprs[i] = output_exprs[j]
    BY <2>1, <2>4, <2>5 DEF CompilerInv, GatesMirrorExprs
  <2> QED
    BY <2>4, <2>5, <2>6
<1>4. PipelineInv /\ PanicHeld => StrictProgramsNeverPanic
  BY <1>3 DEF StrictProgramsNeverPanic
<1> QED
  BY <1>1, <1>2, <1>4, PipelineInvariant, PTL DEF PipelineSpec
=============================================================================
