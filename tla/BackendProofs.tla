---------------------------- MODULE BackendProofs ----------------------------
(* What holds of every evaluation, for every circuit, all arguments and any   *)
(* budget: each element is made of those of its operands, for the arguments   *)
(* of this call; noise stays within the budget; and what is evaluated is      *)
(* exactly what was asked for.                                                *)
EXTENDS Backend, DagProofs, FiniteSetTheorems

\* The call at hand is about a circuit of the compiler and words.
CallGiven ==
  /\ circuit.gates \in Seq(Node) /\ circuit.outputs \in Seq(Gates)
  /\ Topological(circuit.gates)
  /\ with \in Seq(Word)

\* The backend computes modulo the circuit's modulus until the call's end.
InModulus ==
  verdict \in {"running", "ok"} => backend.plain_text_modulus = circuit.plain_text_modulus

\* Noise below the maximum so far is not compared with the budget, which is right
\* because the maximum is within it.
Tracked ==
  Mock /\ verdict \in {"running", "ok"} =>
    /\ max_so_far <= backend.noise_budget
    /\ \A g \in DOMAIN elems : elems[g].noise <= max_so_far

\* eval is through with the gates before the one that is next.
PlaceInEval ==
  InEval => at \in 1 .. Len(circuit.gates) + 1 /\ DOMAIN elems = 1 .. at - 1

\* What eval_outputs has evaluated, has at hand, or has still on its stack.
Work == DOMAIN elems \cup ({current} \ {0}) \cup Range(dfs_stack)

\* Each output is work or has still its turn, and only what the outputs need is work.
WalkExact ==
  InWalk =>
    /\ roots \in Seq(Gates) /\ current \in Gates \cup {0} /\ dfs_stack \in Seq(Gates)
    /\ Range(circuit.outputs) \subseteq Work \cup Range(roots)
    /\ Work \cup Range(roots) \subseteq Live(circuit.gates, Range(circuit.outputs))

AnswersExact == verdict = "ok" => DOMAIN elems = Asked

BackendInv ==
  /\ BackendTypeOK /\ CallGiven /\ InModulus
  /\ EachFromItsOperands /\ Tracked
  /\ PlaceInEval /\ WalkExact /\ AnswersExact

-----------------------------------------------------------------------------
LEMMA GivenCompiled ==
  ASSUME NEW c \in GivenCircuits
  PROVE  /\ c.gates \in Seq(Node) /\ c.outputs \in Seq(DOMAIN c.gates)
         /\ Topological(c.gates)
         /\ c.plain_text_modulus \in Word \ {0}
<1>1. PICK d \in Circuits, q \in Moduli : c = GivenCircuit(d, q)
  BY DEF GivenCircuits
<1>2. d.gates \in Seq(Node) /\ d.outputs \in Seq(DOMAIN d.gates) /\ Topological(d.gates)
  BY CircuitAssumption DEF Compiled
<1>3. c.gates = d.gates /\ c.outputs = d.outputs /\ c.plain_text_modulus = q
  BY <1>1 DEF GivenCircuit
<1> QED
  BY <1>2, <1>3, BackendAssumption

\* The modulus in use is no zero, so that a remainder is a word.
LEMMA RemainderIsWord ==
  ASSUME backend \in Held, NEW v \in Int
  PROVE  v % backend.plain_text_modulus \in Word
<1>1. WordSize \in Nat \ {0} /\ backend.plain_text_modulus \in 1 .. WordSize - 1
  BY WordsAssumption DEF Held, Word
<1> DEFINE q == backend.plain_text_modulus
<1>2. v % q \in 0 .. q - 1
  BY <1>1
<1> QED
  BY <1>1, <1>2 DEF Word

\* A gate is a node at a number from 1 to the length of the arena, after its operands.
LEMMA GateFacts ==
  ASSUME CallGiven
  PROVE  /\ Len(circuit.gates) \in Nat /\ Gates = 1 .. Len(circuit.gates)
         /\ \A g \in Gates : /\ g \in Nat \ {0} /\ circuit.gates[g] \in Node
                             /\ Operands(circuit.gates[g]) \subseteq Gates
                             /\ Operands(circuit.gates[g]) \subseteq 1 .. g - 1
<1>1. Len(circuit.gates) \in Nat /\ Gates = 1 .. Len(circuit.gates)
  BY LenProperties DEF CallGiven, Gates
<1>2. \A g \in Gates : circuit.gates[g] \in Node
  BY <1>1, ElementOfSeq DEF CallGiven
<1>3. \A g \in Gates : Operands(circuit.gates[g]) \subseteq 1 .. g - 1
  BY DEF CallGiven, Topological, Gates
<1>4. \A g \in Gates : g \in Nat \ {0} /\ 1 .. g - 1 \subseteq Gates
  BY <1>1
<1> QED
  BY <1>1, <1>2, <1>3, <1>4

\* What is computed of elements is an element.
LEMMA CombinedIsElem ==
  ASSUME backend \in Held, NEW op \in BinOp, NEW x \in Elem, NEW y \in Elem
  PROVE  Combine(op, x, y) \in Elem
<1> USE WordsAssumption, BackendAssumption
<1>1. x.value \in Int /\ y.value \in Int /\ x.depth \in Nat /\ y.depth \in Nat
      /\ x.noise \in Nat /\ y.noise \in Nat
  BY DEF Elem, Word
<1>2. Exact(op, x.value, y.value) \in Int
  BY <1>1 DEF Exact, BinOp
<1>3. MachineOp(op, x.value, y.value) \in Int
  BY <1>2 DEF MachineOp
<1>4. MachineOp(op, x.value, y.value) % backend.plain_text_modulus \in Word
  BY <1>3, RemainderIsWord
<1>5. DepthOf(op, x.depth, y.depth) \in Nat
  BY <1>1 DEF DepthOf, Larger
<1>6. ExactNoise(op, x.noise, y.noise) \in Int
  <2>1. x.noise * y.noise + 5 \in Int
    BY <1>1
  <2> QED
    BY <2>1, <1>1 DEF ExactNoise, Larger, ADD_COST, MUL_COST
<1>7. ExactNoise(op, x.noise, y.noise) % NoiseWords \in Nat
  BY <1>6
<1> QED
  BY <1>4, <1>5, <1>7 DEF Combine, Element, Elem

LEMMA EvaluatedIsElem ==
  ASSUME BackendInv, verdict = "running", NEW g \in Gates, ~ Fails(g),
         Operands(circuit.gates[g]) \subseteq DOMAIN elems
  PROVE  Evaluated(g) \in Elem
<1> DEFINE n == circuit.gates[g]
<1> USE WordsAssumption
<1>1. n \in Node
  BY GateFacts DEF BackendInv
<1>2. \A v \in Int : v % backend.plain_text_modulus \in Word
  BY RemainderIsWord DEF BackendInv, BackendTypeOK
<1>3. \A v \in Word : FromInput(v) \in Elem /\ FromConstant(v) \in Elem
  BY <1>2 DEF FromInput, FromConstant, Element, Elem, ENC_NOISE, Word
<1>4. CASE IsInput(n)
  <2>1. n.index + 1 \in DOMAIN with
    BY <1>4 DEF Fails
  <2>2. with[n.index + 1] \in Word
    BY <2>1, LenProperties, ElementOfSeq DEF BackendInv, CallGiven
  <2>3. Evaluated(g) = FromInput(with[n.index + 1])
    BY <1>4 DEF Evaluated, IsOp, IsInput, IsConst
  <2>4. FromInput(with[n.index + 1]) \in Elem
    BY <2>2, <1>3
  <2> QED
    BY <2>3, <2>4
<1>5. CASE IsConst(n)
  <2>1. n.value \in Word
    BY <1>1, <1>5 DEF Node, IsConst
  <2>2. Evaluated(g) = FromConstant(n.value)
    BY <1>5 DEF Evaluated, IsOp, IsInput, IsConst
  <2>3. FromConstant(n.value) \in Elem
    BY <2>1, <1>3
  <2> QED
    BY <2>2, <2>3
<1>6. CASE IsOp(n)
  <2>1. n.lhs \in DOMAIN elems /\ n.rhs \in DOMAIN elems /\ n.op \in BinOp
    BY <1>1, <1>6, NodeKinds, DagAssumption
  <2>2. elems[n.lhs] \in Elem /\ elems[n.rhs] \in Elem
    BY <2>1 DEF BackendInv, BackendTypeOK
  <2>3. Evaluated(g) = Combine(n.op, elems[n.lhs], elems[n.rhs])
    BY <1>6 DEF Evaluated, IsOp, IsInput, IsConst
  <2> QED
    BY <2>1, <2>2, <2>3, CombinedIsElem DEF BackendInv, BackendTypeOK
<1> QED
  BY <1>1, <1>4, <1>5, <1>6, NodeKinds

\* An element depends on the call and on the elements of the operands only.
LEMMA EvaluatedKept ==
  ASSUME NEW g \in Gates, UNCHANGED <<backend, circuit, with>>,
         circuit.gates[g] \in Node,
         \A o \in Operands(circuit.gates[g]) : elems'[o] = elems[o]
  PROVE  Evaluated(g)' = Evaluated(g) /\ Fails(g)' = Fails(g)
<1> DEFINE n == circuit.gates[g]
<1>1. CASE IsOp(n)
  <2>1. elems'[n.lhs] = elems[n.lhs] /\ elems'[n.rhs] = elems[n.rhs]
    BY <1>1, NodeKinds
  <2>2. /\ Evaluated(g) = Combine(n.op, elems[n.lhs], elems[n.rhs])
        /\ Evaluated(g)' = Combine(n.op, elems[n.lhs], elems[n.rhs])'
    BY <1>1 DEF Evaluated, IsOp, IsInput, IsConst
  <2>3. Combine(n.op, elems[n.lhs], elems[n.rhs])' = Combine(n.op, elems[n.lhs], elems[n.rhs])
    BY <2>1 DEF Combine, Mock, Element
  <2>4. Fails(g)' = Fails(g)
    BY <1>1, <2>1 DEF Fails, NoiseOverflows, Mock, IsOp, IsInput
  <2> QED
    BY <2>2, <2>3, <2>4
<1>2. CASE ~ IsOp(n)
  BY <1>2 DEF Evaluated, Fails, FromInput, FromConstant, Mock, Element
<1> QED
  BY <1>1, <1>2

\* Both loops do the same with a gate whose turn has come.
LEMMA EvaluateKeeps ==
  ASSUME BackendInv, verdict = "running",
         NEW g \in Gates, g \notin DOMAIN elems,
         Operands(circuit.gates[g]) \subseteq DOMAIN elems,
         Evaluate(g)
  PROVE  /\ DOMAIN elems' = DOMAIN elems \cup {g}
         /\ \A h \in DOMAIN elems' : elems'[h] \in Elem
         /\ max_so_far' \in Nat /\ index' \in Nat
         /\ CallGiven' /\ EachFromItsOperands' /\ Tracked'
<1>1. Evaluated(g) \in Elem
  BY EvaluatedIsElem DEF Evaluate
<1>2. /\ DOMAIN elems' = DOMAIN elems \cup {g}
      /\ elems'[g] = Evaluated(g)
      /\ \A h \in DOMAIN elems : elems'[h] = elems[h]
  BY DEF Evaluate
<1>3. /\ UNCHANGED <<backend, circuit, with, verdict>>
      /\ ~ Fails(g) /\ Update(Evaluated(g).noise, g) /\ ~ Exceeds(Evaluated(g).noise)
  BY DEF Evaluate
<1>4. \A h \in DOMAIN elems' : elems'[h] \in Elem
  BY <1>1, <1>2 DEF BackendInv, BackendTypeOK
<1>5. max_so_far' \in Nat /\ index' \in Nat
  BY <1>1, <1>3, GateFacts DEF BackendInv, BackendTypeOK, Update, Elem
<1>6. CallGiven'
  BY <1>3 DEF BackendInv, CallGiven, Gates
<1>7. EachFromItsOperands'
  <2> SUFFICES ASSUME NEW h \in DOMAIN elems'
               PROVE  /\ h \in Gates' /\ Operands(circuit.gates[h])' \subseteq DOMAIN elems'
                      /\ ~ Fails(h)' /\ elems'[h] = Evaluated(h)'
    BY DEF EachFromItsOperands
  <2>1. h \in Gates /\ Operands(circuit.gates[h]) \subseteq DOMAIN elems
        /\ ~ Fails(h) /\ elems'[h] = Evaluated(h)
    BY <1>2, <1>3 DEF BackendInv, EachFromItsOperands
  <2>2. \A o \in Operands(circuit.gates[h]) : elems'[o] = elems[o]
    BY <2>1, <1>2
  <2>3. circuit.gates[h] \in Node
    BY <2>1, GateFacts DEF BackendInv
  <2>4. Evaluated(h)' = Evaluated(h) /\ Fails(h)' = Fails(h)
    BY <2>1, <2>2, <2>3, <1>3, EvaluatedKept
  <2> QED
    BY <2>1, <2>4, <1>2, <1>3 DEF Gates
<1>8. Tracked'
  <2> SUFFICES ASSUME Mock
               PROVE  /\ max_so_far' <= backend.noise_budget
                      /\ \A h \in DOMAIN elems' : elems'[h].noise <= max_so_far'
    BY <1>3 DEF Tracked, Mock
  <2>1. /\ max_so_far \in Nat /\ max_so_far <= backend.noise_budget
        /\ \A h \in DOMAIN elems : elems[h].noise \in Nat /\ elems[h].noise <= max_so_far
        /\ backend.noise_budget \in Nat
        /\ Evaluated(g).noise \in Nat
    BY <1>1 DEF BackendInv, BackendTypeOK, Tracked, Elem, Held
  <2>2. CASE Evaluated(g).noise >= max_so_far
    <3>1. max_so_far' = Evaluated(g).noise /\ Evaluated(g).noise <= backend.noise_budget
      BY <2>1, <2>2, <1>3 DEF Update, Exceeds
    <3> QED
      BY <3>1, <2>1, <2>2, <1>2
  <2>3. CASE Evaluated(g).noise < max_so_far
    <3>1. max_so_far' = max_so_far
      BY <2>1, <2>3, <1>3 DEF Update
    <3> QED
      BY <3>1, <2>1, <2>3, <1>2
  <2> QED
    BY <2>1, <2>2, <2>3
<1> QED
  BY <1>2, <1>4, <1>5, <1>6, <1>7, <1>8

-----------------------------------------------------------------------------
LEMMA InitHolds == BackendInit => BackendInv
<1> SUFFICES ASSUME BackendInit PROVE BackendInv
  OBVIOUS
<1>1. /\ circuit.gates = << >> /\ circuit.outputs = << >> /\ with = << >>
      /\ DOMAIN circuit.gates = {} /\ DOMAIN elems = {}
  BY DEF BackendInit, GivenCircuit
<1>2. CallGiven
  BY <1>1 DEF CallGiven, Topological, Gates
<1>3. BackendTypeOK
  <2>1. backend \in Held
    <3>1. PICK b \in Backends : backend = [kind |-> b.kind, noise_budget |-> b.noise_budget,
                                           plain_text_modulus |-> 1]
      BY DEF BackendInit
    <3>2. b.kind \in {"PlainModQ", "MockFHE"} /\ b.noise_budget \in Nat
      BY BackendAssumption
    <3>3. 1 \in Word \ {0}
      BY WordsAssumption DEF Word
    <3> QED
      BY <3>1, <3>2, <3>3 DEF Held
  <2> QED
    BY <1>1, <2>1, BackendAssumption DEF BackendInit, BackendTypeOK, Gates
<1>4. verdict = "none"
  BY DEF BackendInit
<1> QED
  BY <1>2, <1>3, <1>4
     DEF BackendInv, InModulus, EachFromItsOperands, Tracked, PlaceInEval, WalkExact,
         AnswersExact, InEval, InWalk

\* A backend that takes another modulus is otherwise the same.
LEMMA ModulusTaken ==
  ASSUME BackendInv, NEW q \in Word \ {0}, TakeModulus(q)
  PROVE  /\ backend' \in Held
         /\ backend'.kind = backend.kind /\ backend'.noise_budget = backend.noise_budget
BY DEF BackendInv, BackendTypeOK, TakeModulus, Held

\* A call begins anew, whatever was left by the one before.
LEMMA ReceivedHolds ==
  ASSUME BackendInv, NEW how \in {"eval", "eval_outputs"},
         NEW c \in GivenCircuits, NEW args \in Arguments, Receive(how, c, args),
         UNCHANGED backend \/ TakeModulus(c.plain_text_modulus),
         Reset \/ UNCHANGED <<max_so_far, index>>
  PROVE  /\ CallGiven' /\ EachFromItsOperands' /\ DOMAIN elems' = {}
         /\ backend' \in Held /\ calls' \in 0 .. MaxCalls
         /\ call' \in {"eval", "eval_outputs"}
         /\ max_so_far' \in Nat /\ index' \in Nat
         /\ Reset => Tracked'
<1>1. /\ circuit' = c /\ with' = args /\ elems' = << >>
      /\ calls < MaxCalls /\ calls' = calls + 1 /\ call' = how
  BY DEF Receive, Ready
<1>2. DOMAIN elems' = {}
  BY <1>1
<1>3. CallGiven'
  BY <1>1, GivenCompiled, BackendAssumption DEF CallGiven, Gates
<1>4. EachFromItsOperands'
  BY <1>2 DEF EachFromItsOperands
<1>5. calls' \in 0 .. MaxCalls /\ call' \in {"eval", "eval_outputs"}
  BY <1>1, BackendAssumption DEF BackendInv, BackendTypeOK
<1>8. /\ backend' \in Held
      /\ backend'.kind = backend.kind /\ backend'.noise_budget = backend.noise_budget
  BY ModulusTaken, GivenCompiled DEF BackendInv, BackendTypeOK
<1>6. max_so_far' \in Nat /\ index' \in Nat
  BY DEF BackendInv, BackendTypeOK, Reset
<1>7. ASSUME Reset PROVE Tracked'
  <2>1. backend.noise_budget \in Nat
    BY DEF BackendInv, BackendTypeOK, Held
  <2>2. Mock => max_so_far' = 0
    BY <1>7 DEF Reset
  <2> QED
    BY <2>1, <2>2, <1>2, <1>8 DEF Tracked, Mock
<1> QED
  BY <1>2, <1>3, <1>4, <1>5, <1>6, <1>7, <1>8

LEMMA TakenIsCircuits ==
  ASSUME BackendInv, NEW how, NEW c \in GivenCircuits, NEW args,
         Receive(how, c, args), TakeModulus(c.plain_text_modulus)
  PROVE  backend'.plain_text_modulus = circuit'.plain_text_modulus
BY DEF BackendInv, BackendTypeOK, TakeModulus, Held, Receive

LEMMA CallsKeep == BackendInv /\ Calls => BackendInv'
<1>0. ASSUME BackendInv, NEW q \in Moduli, SetPlainTextModulus(q) PROVE BackendInv'
  <2>1. /\ TakeModulus(q) /\ verdict' = "none"
        /\ UNCHANGED <<max_so_far, index, calls, call, circuit, with, elems, at, roots,
                       current, dfs_stack, results>>
    BY <1>0 DEF SetPlainTextModulus, walkVars
  <2>2. backend' \in Held
    BY <1>0, <2>1, ModulusTaken, BackendAssumption
  <2>3. CallGiven' /\ BackendTypeOK'
    BY <1>0, <2>1, <2>2 DEF BackendInv, CallGiven, BackendTypeOK, Gates
  <2> QED
    BY <2>1, <2>3
       DEF BackendInv, InModulus, EachFromItsOperands, Tracked, PlaceInEval, WalkExact,
           AnswersExact, InEval, InWalk
<1> SUFFICES ASSUME BackendInv, NEW c \in GivenCircuits, NEW args \in Arguments,
                    \/ \E how \in {"eval", "eval_outputs"} : Refuse(how, c, args)
                    \/ Eval(c, args) \/ EvalOutputs(c, args)
             PROVE  BackendInv'
  BY <1>0 DEF Calls
<1>1. CASE \E how \in {"eval", "eval_outputs"} : Refuse(how, c, args)
  <2>1. PICK how \in {"eval", "eval_outputs"} : Refuse(how, c, args)
    BY <1>1
  <2>2. /\ Receive(how, c, args) /\ verdict' = "InvalidInputLen"
        /\ Reset \/ UNCHANGED <<max_so_far, index>>
        /\ UNCHANGED <<backend, at, roots, current, dfs_stack>>
    BY <2>1 DEF Refuse, walkVars
  <2>3. BackendTypeOK'
    BY <2>2, ReceivedHolds DEF BackendInv, BackendTypeOK
  <2>4. CallGiven' /\ EachFromItsOperands'
    BY <2>2, ReceivedHolds
  <2> QED
    BY <2>2, <2>3, <2>4
       DEF BackendInv, InModulus, Tracked, PlaceInEval, WalkExact, AnswersExact, InEval, InWalk
<1>2. CASE Eval(c, args)
  <2>1. /\ Receive("eval", c, args) /\ TakeModulus(c.plain_text_modulus) /\ Reset /\ verdict' = "running" /\ at' = 1
        /\ UNCHANGED <<roots, current, dfs_stack>> /\ call' = "eval"
    BY <1>2 DEF Eval, Receive
  <2>2. /\ CallGiven' /\ EachFromItsOperands' /\ Tracked' /\ DOMAIN elems' = {}
    BY <2>1, ReceivedHolds
  <2>3. BackendTypeOK'
    BY <2>1, <2>2, ReceivedHolds DEF BackendInv, BackendTypeOK
  <2>4. PlaceInEval'
    BY <2>1, <2>2, LenProperties DEF PlaceInEval, CallGiven
  <2>5. InModulus'
    BY <2>1, TakenIsCircuits DEF InModulus
  <2> QED
    BY <2>1, <2>2, <2>3, <2>4, <2>5 DEF BackendInv, WalkExact, AnswersExact, InWalk
<1>3. CASE EvalOutputs(c, args)
  <2>1. /\ Receive("eval_outputs", c, args) /\ TakeModulus(c.plain_text_modulus)
        /\ Reset /\ verdict' = "running"
        /\ dfs_stack' = << >> /\ UNCHANGED at /\ call' = "eval_outputs" /\ circuit' = c
        /\ IF c.outputs = << >> THEN current' = 0 /\ roots' = << >>
           ELSE current' = Head(c.outputs) /\ roots' = Tail(c.outputs)
    BY <1>3 DEF EvalOutputs, Receive
  <2>2. CallGiven' /\ EachFromItsOperands' /\ Tracked' /\ DOMAIN elems' = {}
    BY <2>1, ReceivedHolds
  <2>3. /\ c.outputs \in Seq(DOMAIN c.gates) /\ DOMAIN c.gates \subseteq Nat \ {0}
        /\ Gates' = DOMAIN c.gates
    BY <2>1, GivenCompiled, LenProperties DEF Gates
  <2>4. /\ roots' \in Seq(DOMAIN c.gates) /\ current' \in DOMAIN c.gates \cup {0}
        /\ dfs_stack' \in Seq(DOMAIN c.gates) /\ Range(dfs_stack') = {}
        /\ Range(c.outputs) = ({current'} \ {0}) \cup Range(roots')
    <3>1. dfs_stack' \in Seq(DOMAIN c.gates) /\ Range(dfs_stack') = {}
      BY <2>1 DEF Range
    <3>2. CASE c.outputs = << >>
      BY <3>1, <3>2, <2>1 DEF Range
    <3>3. CASE c.outputs # << >>
      <4>1. /\ Head(c.outputs) \in DOMAIN c.gates /\ Tail(c.outputs) \in Seq(DOMAIN c.gates)
            /\ Range(c.outputs) = {Head(c.outputs)} \cup Range(Tail(c.outputs))
        BY <3>3, <2>3, HeadTailRange
      <4>2. current' = Head(c.outputs) /\ roots' = Tail(c.outputs) /\ Head(c.outputs) # 0
        BY <3>3, <4>1, <2>1, <2>3
      <4>3. Range(roots') = Range(Tail(c.outputs))
        BY <4>2
      <4> QED
        BY <3>1, <4>1, <4>2, <4>3
    <3> QED
      BY <3>1, <3>2, <3>3
  <2>5. Range(c.outputs) \subseteq Live(c.gates, Range(c.outputs))
    BY <2>3, LiveHoldsRoots, RangeInSet
  <2>6. WalkExact'
    <3>1. (Work \cup Range(roots))' = Range(c.outputs)
      BY <2>2, <2>4 DEF Work, Range
    <3>2. Work' \cup Range(roots') = Range(c.outputs)
      BY <3>1 DEF Range
    <3> QED
      BY <2>1, <2>3, <2>4, <2>5, <3>2 DEF WalkExact
  <2>7. BackendTypeOK'
    <3>1. roots' \in Seq(Nat) /\ current' \in Nat /\ dfs_stack' \in Seq(Nat)
      <4>1. DOMAIN c.gates \subseteq Nat
        BY <2>3
      <4> QED
        BY <4>1, <2>4, SeqInLarger
    <3> QED
      BY <3>1, <2>1, <2>2, ReceivedHolds DEF BackendInv, BackendTypeOK
  <2>8. InModulus'
    BY <2>1, TakenIsCircuits DEF InModulus
  <2> QED
    BY <2>1, <2>2, <2>6, <2>7, <2>8 DEF BackendInv, PlaceInEval, AnswersExact, InEval
<1> QED
  BY <1>1, <1>2, <1>3

-----------------------------------------------------------------------------
\* A step that gives the call up, whatever it was doing.
LEMMA StopHolds ==
  ASSUME BackendInv,
         verdict' \in {"panic", "NoiseBudgetExceeded"},
         max_so_far' \in Nat, index' \in Nat,
         UNCHANGED <<backend, calls, call, circuit, with, elems, walkVars>>
  PROVE  BackendInv'
<1>1. CallGiven'
  BY DEF BackendInv, CallGiven, Gates
<1>2. BackendTypeOK'
  BY DEF BackendInv, BackendTypeOK, Gates, walkVars
<1> QED
  BY <1>1, <1>2
     DEF BackendInv, InModulus, EachFromItsOperands, Tracked, PlaceInEval, WalkExact,
         AnswersExact, InEval, InWalk

LEMMA ExceedStops ==
  ASSUME BackendInv, verdict = "running", NEW g \in Gates, Exceed(g),
         Operands(circuit.gates[g]) \subseteq DOMAIN elems
  PROVE  BackendInv'
<1>1. Evaluated(g) \in Elem
  BY EvaluatedIsElem DEF Exceed
<1>2. max_so_far' \in Nat /\ index' \in Nat
  BY <1>1, GateFacts DEF Exceed, Update, BackendInv, BackendTypeOK, Elem
<1> QED
  BY <1>2, StopHolds DEF Exceed

LEMMA PanicStops == BackendInv /\ Panic => BackendInv'
<1> SUFFICES ASSUME BackendInv, Panic PROVE BackendInv'
  OBVIOUS
<1> QED
  BY StopHolds DEF Panic, BackendInv, BackendTypeOK

-----------------------------------------------------------------------------
\* The loop of eval: the operands of the gate that is next have had their turn.
LEMMA TurnInEval ==
  ASSUME BackendInv, InEval, at \in DOMAIN circuit.gates
  PROVE  /\ at \in Gates /\ at \notin DOMAIN elems
         /\ Operands(circuit.gates[at]) \subseteq DOMAIN elems
BY GateFacts DEF BackendInv, PlaceInEval, Gates

LEMMA EvalGateKeeps == BackendInv /\ EvalGate => BackendInv'
<1> SUFFICES ASSUME BackendInv, EvalGate PROVE BackendInv'
  OBVIOUS
<1>1. /\ InEval /\ verdict = "running" /\ at \in Gates /\ at \notin DOMAIN elems
      /\ Operands(circuit.gates[at]) \subseteq DOMAIN elems
      /\ Evaluate(at) /\ at' = at + 1 /\ UNCHANGED <<roots, current, dfs_stack>>
  BY TurnInEval DEF EvalGate, InEval
<1>2. /\ DOMAIN elems' = DOMAIN elems \cup {at}
      /\ \A h \in DOMAIN elems' : elems'[h] \in Elem
      /\ max_so_far' \in Nat /\ index' \in Nat
      /\ CallGiven' /\ EachFromItsOperands' /\ Tracked'
  BY <1>1, EvaluateKeeps
<1>3. UNCHANGED <<backend, calls, call, circuit, with, verdict>>
  BY <1>1 DEF Evaluate
<1>4. BackendTypeOK'
  BY <1>1, <1>2, <1>3 DEF BackendInv, BackendTypeOK, Gates
<1>5. PlaceInEval'
  <2>1. /\ at \in Nat \ {0} /\ at \in 1 .. Len(circuit.gates)
        /\ DOMAIN elems = 1 .. at - 1
    BY <1>1, GateFacts DEF BackendInv, PlaceInEval
  <2>2. 1 .. at = (1 .. at - 1) \cup {at} /\ at + 1 - 1 = at
    BY <2>1
  <2>3. at + 1 \in 1 .. Len(circuit.gates) + 1
    BY <2>1, GateFacts DEF BackendInv
  <2> QED
    BY <2>1, <2>2, <2>3, <1>1, <1>2, <1>3 DEF PlaceInEval
<1> QED
  BY <1>1, <1>2, <1>3, <1>4, <1>5
     DEF BackendInv, InModulus, WalkExact, AnswersExact, InWalk, InEval

LEMMA EvalStopsKeeps == BackendInv /\ EvalStops => BackendInv'
BY TurnInEval, ExceedStops, PanicStops DEF EvalStops, InEval

\* An answer keeps everything but the verdict and the results.
LEMMA AnswerHolds ==
  ASSUME BackendInv, verdict = "running", verdict' = "ok", DOMAIN elems = Asked,
         UNCHANGED <<backend, max_so_far, index, calls, call, circuit, with, elems, walkVars>>
  PROVE  BackendInv'
<1>1. CallGiven' /\ BackendTypeOK'
  BY DEF BackendInv, CallGiven, BackendTypeOK, Gates, walkVars
<1>2. Tracked'
  BY DEF BackendInv, Tracked, Mock
<1>3. EachFromItsOperands'
  <2> SUFFICES ASSUME NEW h \in DOMAIN elems'
               PROVE  /\ h \in Gates' /\ Operands(circuit.gates[h])' \subseteq DOMAIN elems'
                      /\ ~ Fails(h)' /\ elems'[h] = Evaluated(h)'
    BY DEF EachFromItsOperands
  <2>1. /\ h \in Gates /\ Operands(circuit.gates[h]) \subseteq DOMAIN elems
        /\ ~ Fails(h) /\ elems[h] = Evaluated(h)
    BY DEF BackendInv, EachFromItsOperands
  <2>2. circuit.gates[h] \in Node
    BY <2>1, GateFacts DEF BackendInv
  <2>3. Evaluated(h)' = Evaluated(h) /\ Fails(h)' = Fails(h)
    BY <2>1, <2>2, EvaluatedKept
  <2> QED
    BY <2>1, <2>3 DEF Gates
<1>4. AnswersExact'
  BY DEF AnswersExact, Asked, Gates
<1> QED
  BY <1>1, <1>2, <1>3, <1>4
     DEF BackendInv, InModulus, PlaceInEval, WalkExact, InEval, InWalk

LEMMA EvalAnswersKeeps == BackendInv /\ EvalAnswers => BackendInv'
<1> SUFFICES ASSUME BackendInv, EvalAnswers PROVE BackendInv'
  OBVIOUS
<1>1. verdict = "running" /\ call = "eval" /\ InEval
  BY DEF EvalAnswers, InEval
<1>2. /\ at \in 1 .. Len(circuit.gates) + 1 /\ DOMAIN elems = 1 .. at - 1
      /\ at \notin 1 .. Len(circuit.gates) /\ Len(circuit.gates) \in Nat
      /\ Gates = 1 .. Len(circuit.gates)
  BY <1>1, GateFacts DEF BackendInv, PlaceInEval, EvalAnswers, Gates
<1>3. at - 1 = Len(circuit.gates)
  BY <1>2
<1>4. DOMAIN elems = Asked
  BY <1>1, <1>2, <1>3 DEF Asked
<1> QED
  BY <1>1, <1>4, AnswerHolds DEF EvalAnswers

-----------------------------------------------------------------------------
\* The walk of eval_outputs.
LEMMA WalkFacts ==
  ASSUME BackendInv, InWalk
  PROVE  /\ verdict = "running" /\ call = "eval_outputs"
         /\ roots \in Seq(Gates) /\ current \in Gates \cup {0} /\ dfs_stack \in Seq(Gates)
         /\ Range(circuit.outputs) \subseteq Work \cup Range(roots)
         /\ Work \cup Range(roots) \subseteq Live(circuit.gates, Range(circuit.outputs))
         /\ 0 \notin Gates
BY GateFacts DEF BackendInv, WalkExact, InWalk

\* A step of the walk that evaluates nothing has to show only where the walk goes.
LEMMA WalkToHolds ==
  ASSUME BackendInv, InWalk, NEW node \in Gates \cup {0}, NEW stack \in Seq(Gates),
         WalkTo(node, stack), roots' \in Seq(Gates),
         LET there == DOMAIN elems \cup ({node} \ {0}) \cup Range(stack) \cup Range(roots')
         IN  /\ Range(circuit.outputs) \subseteq there
             /\ there \subseteq Live(circuit.gates, Range(circuit.outputs))
  PROVE  BackendInv'
<1>1. /\ UNCHANGED <<backend, max_so_far, index, calls, call, circuit, with, elems, at,
                     verdict, results>>
      /\ current' = node /\ dfs_stack' = stack
  BY DEF WalkTo
<1>2. verdict = "running" /\ call = "eval_outputs"
  BY DEF InWalk
<1>3. CallGiven'
  BY <1>1 DEF BackendInv, CallGiven, Gates
<1>4. BackendTypeOK'
  <2>1. roots' \in Seq(Nat) /\ node \in Nat /\ stack \in Seq(Nat)
    <3>1. Gates \subseteq Nat
      BY GateFacts DEF BackendInv
    <3>2. roots' \in Seq(Nat)
      BY <3>1, SeqInLarger
    <3>3. stack \in Seq(Nat)
      BY <3>1, SeqInLarger
    <3> QED
      BY <3>1, <3>2, <3>3
  <2> QED
    BY <2>1, <1>1 DEF BackendInv, BackendTypeOK, Gates
<1>5. Tracked'
  BY <1>1 DEF BackendInv, Tracked, Mock
<1>6. EachFromItsOperands'
  <2> SUFFICES ASSUME NEW h \in DOMAIN elems'
               PROVE  /\ h \in Gates' /\ Operands(circuit.gates[h])' \subseteq DOMAIN elems'
                      /\ ~ Fails(h)' /\ elems'[h] = Evaluated(h)'
    BY DEF EachFromItsOperands
  <2>1. /\ h \in Gates /\ Operands(circuit.gates[h]) \subseteq DOMAIN elems
        /\ ~ Fails(h) /\ elems[h] = Evaluated(h)
    BY <1>1, <1>2 DEF BackendInv, EachFromItsOperands
  <2>2. circuit.gates[h] \in Node
    BY <2>1, GateFacts DEF BackendInv
  <2>3. Evaluated(h)' = Evaluated(h) /\ Fails(h)' = Fails(h)
    BY <2>1, <2>2, <1>1, EvaluatedKept
  <2> QED
    BY <2>1, <2>3, <1>1 DEF Gates
<1>7. WalkExact'
  <2>1. Work' = DOMAIN elems \cup ({node} \ {0}) \cup Range(stack)
    BY <1>1 DEF Work, Range
  <2>2. Gates' = Gates /\ circuit' = circuit
    BY <1>1 DEF Gates
  <2> QED
    BY <2>1, <2>2, <1>1 DEF WalkExact, Range
<1> QED
  BY <1>1, <1>2, <1>3, <1>4, <1>5, <1>6, <1>7
     DEF BackendInv, InModulus, PlaceInEval, AnswersExact, InEval

LEMMA DropEvaluatedKeeps == BackendInv /\ DropEvaluated => BackendInv'
<1> SUFFICES ASSUME BackendInv, DropEvaluated PROVE BackendInv'
  OBVIOUS
<1>1. /\ InWalk /\ current \in DOMAIN elems /\ WalkTo(0, dfs_stack) /\ roots' = roots
  BY DEF DropEvaluated, IsEvaluated
<1>2. DOMAIN elems \cup ({0} \ {0}) \cup Range(dfs_stack) \cup Range(roots')
        = Work \cup Range(roots)
  BY <1>1 DEF Work
<1> QED
  BY <1>1, <1>2, WalkFacts, WalkToHolds

LEMMA DescendKeeps == BackendInv /\ Descend => BackendInv'
<1> SUFFICES ASSUME BackendInv, Descend PROVE BackendInv'
  OBVIOUS
<1> DEFINE n == circuit.gates[current]
           left == IF IsEvaluated(n.lhs) THEN 0 ELSE n.lhs
           stack == dfs_stack \o <<current>> \o MissingRight(n)
           there == DOMAIN elems \cup ({left} \ {0}) \cup Range(stack) \cup Range(roots')
<1>1. /\ InWalk /\ current # 0 /\ WalkTo(left, stack) /\ roots' = roots
      /\ ~ \A o \in Operands(n) : IsEvaluated(o)
  BY DEF Descend
<1>2. current \in Gates /\ n \in Node /\ Operands(n) \subseteq Gates
  BY <1>1, WalkFacts, GateFacts DEF BackendInv
<1>3. Operands(n) = {n.lhs, n.rhs}
  BY <1>1, <1>2, NodeKinds
<1>4. /\ stack \in Seq(Gates)
      /\ Range(stack) = Range(dfs_stack) \cup {current}
                        \cup (IF IsEvaluated(n.rhs) THEN {} ELSE {n.rhs})
  <2>1. /\ dfs_stack \o <<current>> \in Seq(Gates)
        /\ Range(dfs_stack \o <<current>>) = Range(dfs_stack) \cup {current}
    <3>1. dfs_stack \in Seq(Gates) /\ current \in Gates
      BY <1>1, <1>2, WalkFacts
    <3> QED
      BY <3>1, RangeOfPush
  <2>2. CASE IsEvaluated(n.rhs)
    BY <2>1, <2>2, ConcatEmptySeq DEF MissingRight
  <2>3. CASE ~ IsEvaluated(n.rhs)
    <3>1. MissingRight(n) = <<n.rhs>> /\ n.rhs \in Gates
      BY <2>3, <1>2, <1>3 DEF MissingRight
    <3> DEFINE prior == dfs_stack \o <<current>>
    <3>2. stack = prior \o <<n.rhs>> /\ prior \in Seq(Gates)
          /\ Range(prior) = Range(dfs_stack) \cup {current}
      BY <2>1, <3>1
    <3> HIDE DEF prior, stack, n
    <3>3. prior \o <<n.rhs>> \in Seq(Gates) /\ Range(prior \o <<n.rhs>>) = Range(prior) \cup {n.rhs}
      BY <3>1, <3>2, RangeOfPush
    <3> QED
      BY <2>3, <3>2, <3>3
  <2> QED
    BY <2>2, <2>3
<1>5. left \in Gates \cup {0}
  BY <1>2, <1>3
<1>6. current \in Live(circuit.gates, Range(circuit.outputs))
  BY <1>1, <1>2, WalkFacts DEF Work
<1>7. Closed(circuit.gates, Live(circuit.gates, Range(circuit.outputs)))
  BY GateFacts, LiveIsClosed DEF BackendInv, Gates
<1>8. n.lhs \in Live(circuit.gates, Range(circuit.outputs))
      /\ n.rhs \in Live(circuit.gates, Range(circuit.outputs))
  BY <1>3, <1>6, <1>7 DEF Closed
<1>9. Range(circuit.outputs) \subseteq there
  BY <1>1, <1>4, WalkFacts DEF Work
<1>10. there \subseteq Live(circuit.gates, Range(circuit.outputs))
  BY <1>1, <1>4, <1>8, WalkFacts DEF Work
<1> QED
  <2> HIDE DEF left, stack, n
  <2> QED
    BY <1>1, <1>4, <1>5, <1>9, <1>10, WalkFacts, WalkToHolds

LEMMA PopNodeKeeps == BackendInv /\ PopNode => BackendInv'
<1> SUFFICES ASSUME BackendInv, PopNode PROVE BackendInv'
  OBVIOUS
<1> DEFINE top == dfs_stack[Len(dfs_stack)]
           rest == SubSeq(dfs_stack, 1, Len(dfs_stack) - 1)
<1>1. /\ InWalk /\ current = 0 /\ dfs_stack # << >> /\ WalkTo(top, rest) /\ roots' = roots
  BY DEF PopNode
<1>2. top \in Gates /\ rest \in Seq(Gates) /\ Range(dfs_stack) = {top} \cup Range(rest)
  BY <1>1, WalkFacts, TopAndRestRange
<1>3. DOMAIN elems \cup ({top} \ {0}) \cup Range(rest) \cup Range(roots')
        = Work \cup Range(roots)
  BY <1>1, <1>2, WalkFacts DEF Work
<1> HIDE DEF top, rest
<1> QED
  BY <1>1, <1>2, <1>3, WalkFacts, WalkToHolds

LEMMA NextRootKeeps == BackendInv /\ NextRoot => BackendInv'
<1> SUFFICES ASSUME BackendInv, NextRoot PROVE BackendInv'
  OBVIOUS
<1>1. /\ InWalk /\ current = 0 /\ dfs_stack = << >> /\ roots # << >>
      /\ WalkTo(0, <<Head(roots)>>) /\ roots' = Tail(roots)
  BY DEF NextRoot
<1>2. /\ Head(roots) \in Gates /\ Tail(roots) \in Seq(Gates)
      /\ Range(roots) = {Head(roots)} \cup Range(Tail(roots))
  BY <1>1, WalkFacts, HeadTailRange
<1>3. /\ <<Head(roots)>> \in Seq(Gates) /\ Range(<<Head(roots)>>) = {Head(roots)}
      /\ Range(dfs_stack) = {}
  BY <1>1, <1>2 DEF Range
<1>4. DOMAIN elems \cup ({0} \ {0}) \cup Range(<<Head(roots)>>) \cup Range(roots')
        = Work \cup Range(roots)
  BY <1>1, <1>2, <1>3 DEF Work
<1> QED
  BY <1>1, <1>2, <1>3, <1>4, WalkFacts, WalkToHolds

LEMMA NodeReady ==
  ASSUME BackendInv, ReadyNode
  PROVE  /\ InWalk /\ current \in Gates /\ current \notin DOMAIN elems
         /\ Operands(circuit.gates[current]) \subseteq DOMAIN elems
BY WalkFacts DEF ReadyNode, IsEvaluated

LEMMA EvaluateNodeKeeps == BackendInv /\ EvaluateNode => BackendInv'
<1> SUFFICES ASSUME BackendInv, EvaluateNode PROVE BackendInv'
  OBVIOUS
<1>1. /\ InWalk /\ current \in Gates /\ current \notin DOMAIN elems
      /\ Operands(circuit.gates[current]) \subseteq DOMAIN elems
      /\ Evaluate(current) /\ current' = 0 /\ UNCHANGED <<at, roots, dfs_stack>>
  BY NodeReady DEF EvaluateNode
<1>2. verdict = "running" /\ call = "eval_outputs" /\ current # 0
  BY <1>1, WalkFacts
<1>3. /\ DOMAIN elems' = DOMAIN elems \cup {current}
      /\ \A h \in DOMAIN elems' : elems'[h] \in Elem
      /\ max_so_far' \in Nat /\ index' \in Nat
      /\ CallGiven' /\ EachFromItsOperands' /\ Tracked'
  BY <1>1, <1>2, EvaluateKeeps
<1>4. UNCHANGED <<backend, calls, call, circuit, with, verdict>>
  BY <1>1 DEF Evaluate
<1>5. BackendTypeOK'
  BY <1>1, <1>3, <1>4 DEF BackendInv, BackendTypeOK, Gates
<1>6. WalkExact'
  <2>1. Work' = Work
    BY <1>1, <1>2, <1>3 DEF Work, Range
  <2>2. Gates' = Gates
    BY <1>4 DEF Gates
  <2> QED
    BY <2>1, <2>2, <1>1, <1>4, WalkFacts DEF WalkExact, Range
<1> QED
  BY <1>2, <1>3, <1>4, <1>5, <1>6
     DEF BackendInv, InModulus, PlaceInEval, AnswersExact, InEval

LEMMA WalkStopsKeeps == BackendInv /\ WalkStops => BackendInv'
BY NodeReady, ExceedStops, PanicStops DEF WalkStops, InWalk

\* At the end the elements hold the outputs and, with a gate, its operands: all that
\* the outputs need.
LEMMA WalkAnswersKeeps == BackendInv /\ WalkAnswers => BackendInv'
<1> SUFFICES ASSUME BackendInv, WalkAnswers PROVE BackendInv'
  OBVIOUS
<1> DEFINE live == Live(circuit.gates, Range(circuit.outputs))
<1>1. InWalk /\ current = 0 /\ dfs_stack = << >> /\ roots = << >>
  BY DEF WalkAnswers, Walked
<1>2. Work \cup Range(roots) = DOMAIN elems
  <2>1. Range(dfs_stack) = {} /\ Range(roots) = {} /\ {current} \ {0} = {}
    BY <1>1 DEF Range
  <2> QED
    BY <2>1 DEF Work
<1>3. Range(circuit.outputs) \subseteq DOMAIN elems /\ DOMAIN elems \subseteq live
  BY <1>1, <1>2, WalkFacts
<1>4. Closed(circuit.gates, DOMAIN elems) /\ DOMAIN elems \subseteq DOMAIN circuit.gates
  BY <1>1, WalkFacts DEF BackendInv, EachFromItsOperands, Closed, Gates
<1>5. live \subseteq DOMAIN elems
  BY <1>3, <1>4, LiveIsLeast
<1>6. DOMAIN elems = Asked
  BY <1>1, <1>3, <1>5, WalkFacts DEF Asked
<1> QED
  BY <1>1, <1>6, WalkFacts, AnswerHolds DEF WalkAnswers

-----------------------------------------------------------------------------
LEMMA StepHolds == BackendInv /\ [BackendNext]_backendVars => BackendInv'
<1> SUFFICES ASSUME BackendInv, [BackendNext]_backendVars PROVE BackendInv'
  OBVIOUS
<1>1. CASE Calls
  BY <1>1, CallsKeep
<1>2. CASE Steps
  BY <1>2, EvalGateKeeps, EvalStopsKeeps, EvalAnswersKeeps, DropEvaluatedKeeps, DescendKeeps,
     EvaluateNodeKeeps, WalkStopsKeeps, PopNodeKeeps, NextRootKeeps, WalkAnswersKeeps,
     PanicStops DEF Steps, WalkPanics
<1>3. CASE UNCHANGED backendVars
  <2>1. UNCHANGED <<backend, max_so_far, index, calls, call, circuit, with, elems, at,
                    roots, current, dfs_stack, verdict, results>>
    BY <1>3 DEF backendVars
  <2>2. CallGiven' /\ BackendTypeOK' /\ InModulus' /\ Tracked' /\ PlaceInEval'
    BY <2>1 DEF BackendInv, CallGiven, InModulus, BackendTypeOK, Tracked, PlaceInEval, Gates, Mock, InEval
  <2>3. EachFromItsOperands'
    BY <2>1 DEF BackendInv, EachFromItsOperands, Gates, Fails, NoiseOverflows, Mock, Evaluated,
                Combine, FromInput, FromConstant, Element
  <2>4. WalkExact' /\ AnswersExact'
    BY <2>1 DEF BackendInv, WalkExact, AnswersExact, Asked, Gates, InWalk, Work, Range
  <2> QED
    BY <2>2, <2>3, <2>4 DEF BackendInv
<1> QED
  BY <1>1, <1>2, <1>3 DEF BackendNext

LEMMA BackendInvHolds == BackendSpec => []BackendInv
BY InitHolds, StepHolds, PTL DEF BackendSpec

\* Whatever circuits and arguments a program gives, in however many calls.
THEOREM BackendTypeCorrect == BackendSpec => []BackendTypeOK
<1>1. BackendInv => BackendTypeOK
  BY DEF BackendInv
<1> QED
  BY <1>1, BackendInvHolds, PTL

\* No element is left over from an earlier call or made of missing operands.
THEOREM ElementsFromOperands == BackendSpec => []EachFromItsOperands
<1>1. BackendInv => EachFromItsOperands
  BY DEF BackendInv
<1> QED
  BY <1>1, BackendInvHolds, PTL

\* The modulus of an earlier call, or one stored between calls, is never used.
THEOREM ResiduesOfTheCircuit == BackendSpec => []ReducedForThisCircuit
<1>1. BackendInv => ReducedForThisCircuit
  <2> SUFFICES ASSUME BackendInv, verdict \in {"running", "ok"}, NEW g \in DOMAIN elems
               PROVE  elems[g].value \in 0 .. circuit.plain_text_modulus - 1
    BY DEF ReducedForThisCircuit
  <2> DEFINE q == backend.plain_text_modulus
             n == circuit.gates[g]
  <2>1. q = circuit.plain_text_modulus /\ q \in Nat \ {0}
    BY DEF BackendInv, BackendTypeOK, InModulus, Held, Word
  <2>2. elems[g] = Evaluated(g) /\ ~ Fails(g) /\ Operands(n) \subseteq DOMAIN elems
        /\ g \in Gates /\ n \in Node
    BY GateFacts DEF BackendInv, EachFromItsOperands
  <2>3. \E v \in Int : Evaluated(g).value = v % q
    <3>1. CASE IsInput(n)
      <4>1. n.index + 1 \in DOMAIN with
        BY <2>2, <3>1 DEF Fails
      <4>2. with[n.index + 1] \in Word
        BY <4>1, LenProperties, ElementOfSeq DEF BackendInv, CallGiven
      <4>3. with[n.index + 1] \in Int
        BY <4>2 DEF Word
      <4> QED
        BY <3>1, <4>3 DEF Evaluated, FromInput, Element, IsOp, IsInput, IsConst
    <3>2. CASE IsConst(n)
      BY <2>2, <3>2, WordsAssumption
         DEF Evaluated, FromConstant, Element, IsOp, IsInput, IsConst, Node, Word
    <3>3. CASE IsOp(n)
      <4>1. /\ n.lhs \in DOMAIN elems /\ n.rhs \in DOMAIN elems /\ n.op \in BinOp
        BY <2>2, <3>3, NodeKinds, DagAssumption
      <4>2. elems[n.lhs].value \in Int /\ elems[n.rhs].value \in Int
        BY <4>1 DEF BackendInv, BackendTypeOK, Elem, Word
      <4>3. MachineOp(n.op, elems[n.lhs].value, elems[n.rhs].value) \in Int
        BY <4>1, <4>2, WordsAssumption DEF MachineOp, Exact, BinOp
      <4> QED
        BY <3>3, <4>3 DEF Evaluated, Combine, Element, IsOp, IsInput, IsConst
    <3> QED
      BY <2>2, <3>1, <3>2, <3>3, NodeKinds
  <2> QED
    <3> HIDE DEF q
    <3> QED
      BY <2>1, <2>2, <2>3
<1> QED
  BY <1>1, BackendInvHolds, PTL

\* The noise of every element is within the budget, although only a new maximum is
\* compared with it.
THEOREM WithinBudget == BackendSpec => []BudgetRespected
<1>1. BackendInv => BudgetRespected
  <2> SUFFICES ASSUME BackendInv, Mock, verdict \in {"running", "ok"}, NEW g \in DOMAIN elems
               PROVE  elems[g].noise <= backend.noise_budget
    BY DEF BudgetRespected
  <2>1. /\ elems[g].noise \in Nat /\ max_so_far \in Nat /\ backend.noise_budget \in Nat
        /\ elems[g].noise <= max_so_far /\ max_so_far <= backend.noise_budget
    BY DEF BackendInv, BackendTypeOK, Tracked, Elem, Held
  <2> QED
    BY <2>1
<1> QED
  BY <1>1, BackendInvHolds, PTL

\* eval evaluates every gate, and eval_outputs the gates its outputs need and no other.
THEOREM EvaluatesExactlyAsked == BackendSpec => []EvaluatesAsked
<1>1. BackendInv => EvaluatesAsked
  <2> SUFFICES ASSUME BackendInv PROVE EvaluatesAsked
    OBVIOUS
  <2>1. verdict = "ok" => DOMAIN elems = Asked
    BY DEF BackendInv, AnswersExact
  <2>2. CASE verdict = "running" /\ call = "eval"
    BY <2>2 DEF EvaluatesAsked, Asked, BackendInv, BackendTypeOK
  <2>3. CASE verdict = "running" /\ call = "eval_outputs"
    BY <2>3, WalkFacts DEF EvaluatesAsked, Asked, Work, InWalk
  <2> QED
    BY <2>1, <2>2, <2>3 DEF EvaluatesAsked, BackendInv, BackendTypeOK
<1> QED
  BY <1>1, BackendInvHolds, PTL

-----------------------------------------------------------------------------
\* What the gates stand for: Meaning and Noise solve the equations by which they are
\* defined, and are of their types.

LEMMA NodeNoiseTyped ==
  ASSUME NEW n \in Node, NEW f,
         IsOp(n) => f[n.lhs] \in Nat /\ f[n.rhs] \in Nat
  PROVE  NodeNoise(n, f) \in Nat
<1>1. CASE IsOp(n)
  <2> DEFINE x == f[n.lhs]
             y == f[n.rhs]
  <2>1. NodeNoise(n, f) = ExactNoise(n.op, x, y)
    BY <1>1, NodeKinds DEF NodeNoise
  <2>2. x \in Nat /\ y \in Nat /\ x * y \in Nat
    BY <1>1
  <2> HIDE DEF x, y
  <2>3. ExactNoise(n.op, x, y) \in Nat
    BY <2>2 DEF ExactNoise, Larger, MUL_COST, ADD_COST
  <2> QED
    BY <2>1, <2>3
<1>2. CASE ~ IsOp(n)
  BY <1>2, NodeKinds DEF NodeNoise, ENC_NOISE
<1> QED
  BY <1>1, <1>2

LEMMA NodeMeaningTyped ==
  ASSUME CallGiven, NEW n \in Node, NEW f,
         IsOp(n) => f[n.lhs] \in Int /\ f[n.rhs] \in Int
  PROVE  NodeMeaning(n, f) \in Int
<1>1. Word \subseteq Int
  BY DEF Word
<1>2. CASE IsOp(n)
  <2>1. n.op \in BinOp
    BY <1>2, NodeKinds, DagAssumption
  <2>2. NodeMeaning(n, f) = Exact(n.op, f[n.lhs], f[n.rhs])
    BY <1>2, NodeKinds DEF NodeMeaning
  <2> QED
    BY <1>2, <2>1, <2>2, ExactType
<1>3. CASE IsInput(n)
  <2> DEFINE i == n.index + 1
  <2>1. i \in DOMAIN with => with[i] \in Word
    BY LenProperties, ElementOfSeq DEF CallGiven
  <2>2. NodeMeaning(n, f) = IF i \in DOMAIN with THEN with[i] ELSE 0
    BY <1>3, NodeKinds DEF NodeMeaning
  <2> HIDE DEF i
  <2>3. CASE i \in DOMAIN with
    BY <1>1, <2>1, <2>2, <2>3
  <2>4. CASE i \notin DOMAIN with
    BY <2>2, <2>4
  <2> QED
    BY <2>3, <2>4
<1>4. CASE IsConst(n)
  <2>1. n.value \in Word
    BY <1>4 DEF Node, IsConst
  <2>2. NodeMeaning(n, f) = n.value
    BY <1>4, NodeKinds DEF NodeMeaning
  <2> QED
    BY <1>1, <2>1, <2>2
<1> QED
  BY <1>2, <1>3, <1>4, NodeKinds

LEMMA NoiseEquation ==
  ASSUME CallGiven
  PROVE  \A g \in Gates : Noise[g] \in Nat /\ Noise[g] = NodeNoise(circuit.gates[g], Noise)
<1>0. Noise = CHOOSE f : f = [g \in Gates |-> NodeNoise(circuit.gates[g], f)]
  BY DEF Noise
<1> DEFINE N == Len(circuit.gates)
           P(f) == f = [g \in Gates |-> NodeNoise(circuit.gates[g], f)]
           step == [p \in (1 .. N) \X [1 .. N -> Nat] |-> NodeNoise(circuit.gates[p[1]], p[2])]
           d == Noise
<1>1. /\ N \in Nat /\ Gates = 1 .. N
      /\ \A g \in 1 .. N :
           /\ circuit.gates[g] \in Node
           /\ IsOp(circuit.gates[g]) => circuit.gates[g].lhs \in 1 .. g - 1
                                        /\ circuit.gates[g].rhs \in 1 .. g - 1
  BY OperandsBefore DEF CallGiven, Gates
<1>2. Causal(N, Nat, step)
  <2>1. ASSUME NEW g \in 1 .. N, NEW f \in [1 .. N -> Nat]
        PROVE  NodeNoise(circuit.gates[g], f) \in Nat
    <3>1. IsOp(circuit.gates[g]) => f[circuit.gates[g].lhs] \in Nat /\ f[circuit.gates[g].rhs] \in Nat
      BY <1>1
    <3> QED
      BY <3>1, <1>1, NodeNoiseTyped
  <2>2. step \in [(1 .. N) \X [1 .. N -> Nat] -> Nat]
    BY <2>1
  <2>3. \A g \in 1 .. N : \A f, h \in [1 .. N -> Nat] :
          (\A k \in 1 .. g - 1 : f[k] = h[k]) => step[<<g, f>>] = step[<<g, h>>]
    BY <1>1, NodeKinds DEF NodeNoise
  <2> QED
    BY <2>2, <2>3 DEF Causal
<1>3. PICK f : Solves(f, N, Nat, step)
  <2>1. Nat # {}
    OBVIOUS
  <2> HIDE DEF step, N
  <2> QED
    BY <1>1, <1>2, <2>1, RecursionSolvable
<1>4. f \in [1 .. N -> Nat] /\ \A g \in 1 .. N : f[g] = NodeNoise(circuit.gates[g], f)
  <2>1. \A g \in 1 .. N : \A h \in [1 .. N -> Nat] : step[<<g, h>>] = NodeNoise(circuit.gates[g], h)
    OBVIOUS
  <2> HIDE DEF N, step
  <2> QED
    BY <1>3, <2>1 DEF Solves
<1> HIDE DEF N, step
<1>5. P(f)
  BY <1>1, <1>4
<1>6. P(d)
  <2>1. d = CHOOSE h : P(h)
    BY <1>0
  <2> HIDE DEF P, d
  <2> QED
    BY <1>5, <2>1
<1> HIDE DEF d
<1>7. \A g \in 1 .. N : d[g] = NodeNoise(circuit.gates[g], d)
  BY <1>1, <1>6
<1>8. 1 .. N \subseteq {g \in 1 .. N : d[g] \in Nat}
  <2> DEFINE S == {g \in 1 .. N : d[g] \in Nat}
  <2>1. ASSUME NEW g \in 1 .. N, (1 .. g - 1) \subseteq S
        PROVE  g \in S
    <3>1. IsOp(circuit.gates[g]) => d[circuit.gates[g].lhs] \in Nat /\ d[circuit.gates[g].rhs] \in Nat
      BY <2>1, <1>1
    <3> QED
      BY <3>1, <1>1, <1>7, NodeNoiseTyped
  <2> HIDE DEF S
  <2>2. 1 .. N \subseteq S
    BY <1>1, <2>1, PositionInduction
  <2> QED
    BY <2>2 DEF S
<1> QED
  BY <1>1, <1>7, <1>8 DEF d

LEMMA MeaningEquation ==
  ASSUME CallGiven
  PROVE  \A g \in Gates : /\ Meaning[g] \in Int
                          /\ Meaning[g] = NodeMeaning(circuit.gates[g], Meaning)
<1>0. Meaning = CHOOSE f : f = [g \in Gates |-> NodeMeaning(circuit.gates[g], f)]
  BY DEF Meaning
<1> DEFINE N == Len(circuit.gates)
           P(f) == f = [g \in Gates |-> NodeMeaning(circuit.gates[g], f)]
           step == [p \in (1 .. N) \X [1 .. N -> Int] |-> NodeMeaning(circuit.gates[p[1]], p[2])]
           d == Meaning
<1>1. /\ N \in Nat /\ Gates = 1 .. N
      /\ \A g \in 1 .. N :
           /\ circuit.gates[g] \in Node
           /\ IsOp(circuit.gates[g]) => circuit.gates[g].lhs \in 1 .. g - 1
                                        /\ circuit.gates[g].rhs \in 1 .. g - 1
  BY OperandsBefore DEF CallGiven, Gates
<1>2. Causal(N, Int, step)
  <2>1. ASSUME NEW g \in 1 .. N, NEW f \in [1 .. N -> Int]
        PROVE  NodeMeaning(circuit.gates[g], f) \in Int
    <3>1. IsOp(circuit.gates[g]) => f[circuit.gates[g].lhs] \in Int /\ f[circuit.gates[g].rhs] \in Int
      BY <1>1
    <3> QED
      BY <3>1, <1>1, NodeMeaningTyped
  <2>2. step \in [(1 .. N) \X [1 .. N -> Int] -> Int]
    BY <2>1
  <2>3. \A g \in 1 .. N : \A f, h \in [1 .. N -> Int] :
          (\A k \in 1 .. g - 1 : f[k] = h[k]) => step[<<g, f>>] = step[<<g, h>>]
    BY <1>1, NodeKinds DEF NodeMeaning
  <2> QED
    BY <2>2, <2>3 DEF Causal
<1>3. PICK f : Solves(f, N, Int, step)
  <2>1. Int # {}
    OBVIOUS
  <2> HIDE DEF step, N
  <2> QED
    BY <1>1, <1>2, <2>1, RecursionSolvable
<1>4. f \in [1 .. N -> Int] /\ \A g \in 1 .. N : f[g] = NodeMeaning(circuit.gates[g], f)
  <2>1. \A g \in 1 .. N : \A h \in [1 .. N -> Int] : step[<<g, h>>] = NodeMeaning(circuit.gates[g], h)
    OBVIOUS
  <2> HIDE DEF N, step
  <2> QED
    BY <1>3, <2>1 DEF Solves
<1> HIDE DEF N, step
<1>5. P(f)
  BY <1>1, <1>4
<1>6. P(d)
  <2>1. d = CHOOSE h : P(h)
    BY <1>0
  <2> HIDE DEF P, d
  <2> QED
    BY <1>5, <2>1
<1> HIDE DEF d
<1>7. \A g \in 1 .. N : d[g] = NodeMeaning(circuit.gates[g], d)
  BY <1>1, <1>6
<1>8. 1 .. N \subseteq {g \in 1 .. N : d[g] \in Int}
  <2> DEFINE S == {g \in 1 .. N : d[g] \in Int}
  <2>1. ASSUME NEW g \in 1 .. N, (1 .. g - 1) \subseteq S
        PROVE  g \in S
    <3>1. IsOp(circuit.gates[g]) => d[circuit.gates[g].lhs] \in Int /\ d[circuit.gates[g].rhs] \in Int
      BY <2>1, <1>1
    <3> QED
      BY <3>1, <1>1, <1>7, NodeMeaningTyped
  <2> HIDE DEF S
  <2>2. 1 .. N \subseteq S
    BY <1>1, <2>1, PositionInduction
  <2> QED
    BY <2>2 DEF S
<1> QED
  BY <1>1, <1>7, <1>8 DEF d

-----------------------------------------------------------------------------
\* The noise that fits: what the costs add to the noise of two elements within the budget
\* is a usize.
NoiseFits ==
  \A b \in Backends :
    b.kind = "MockFHE" => b.noise_budget * b.noise_budget + MUL_COST < NoiseWords

\* What else holds of the call at hand: the backend is one that was made, the circuit has
\* one of the moduli, and there are as many arguments as it has inputs.
CallHeld ==
  /\ \E b \in Backends : backend.kind = b.kind /\ backend.noise_budget = b.noise_budget
  /\ verdict \in {"running", "ok"} =>
       circuit.plain_text_modulus \in Moduli /\ NumInputs(circuit) = Len(with)

LEMMA CallHeldInvariant == BackendSpec => []CallHeld
<1>1. BackendInit => CallHeld
  BY DEF BackendInit, CallHeld
<1>2. ASSUME BackendInv, CallHeld, [BackendNext]_backendVars
      PROVE  CallHeld'
  <2>1. CASE backend' = backend /\ circuit' = circuit /\ with' = with
             /\ (verdict' \in {"running", "ok"} => verdict \in {"running", "ok"})
    BY <1>2, <2>1 DEF CallHeld
  <2>2. CASE Steps
    <3>1. verdict = "running" /\ UNCHANGED <<backend, circuit, with>>
      BY <2>2 DEF Steps, EvalGate, EvalStops, EvalAnswers, DropEvaluated, Descend, EvaluateNode,
         WalkStops, PopNode, NextRoot, WalkAnswers, WalkPanics, WalkTo, Evaluate, Exceed, Panic,
         InEval, InWalk, ReadyNode, Walked
    <3> QED
      BY <2>1, <3>1
  <2>3. ASSUME NEW c \in GivenCircuits, NEW args \in Arguments,
               \/ \E how \in {"eval", "eval_outputs"} : Refuse(how, c, args)
               \/ Eval(c, args) \/ EvalOutputs(c, args)
        PROVE  CallHeld'
    <3>1. c.plain_text_modulus \in Moduli
      BY DEF GivenCircuits, GivenCircuit
    <3>2. \/ backend' = backend /\ verdict' = "InvalidInputLen"
          \/ TakeModulus(c.plain_text_modulus) /\ NumInputs(c) = Len(args)
      BY <2>3 DEF Refuse, Eval, EvalOutputs
    <3>3. circuit' = c /\ with' = args
      BY <2>3 DEF Refuse, Eval, EvalOutputs, Receive
    <3>4. backend'.kind = backend.kind /\ backend'.noise_budget = backend.noise_budget
      BY <1>2, <3>2, GivenCompiled, ModulusTaken
    <3>5. verdict' \in {"running", "ok"} => NumInputs(circuit') = Len(with')
      BY <3>2, <3>3
    <3> QED
      BY <1>2, <3>1, <3>3, <3>4, <3>5 DEF CallHeld
  <2>4. ASSUME NEW q \in Moduli, SetPlainTextModulus(q)
        PROVE  CallHeld'
    <3>1. TakeModulus(q) /\ verdict' = "none"
      BY <2>4 DEF SetPlainTextModulus
    <3>2. backend'.kind = backend.kind /\ backend'.noise_budget = backend.noise_budget
      BY <1>2, <3>1, BackendAssumption, ModulusTaken
    <3> QED
      BY <1>2, <3>1, <3>2 DEF CallHeld
  <2>5. CASE UNCHANGED backendVars
    BY <2>1, <2>5 DEF backendVars
  <2> QED
    BY <1>2, <2>2, <2>3, <2>4, <2>5 DEF BackendNext, Calls
<1> QED
  BY <1>1, <1>2, BackendInvHolds, PTL DEF BackendSpec

\* Steps that do not answer a call leave an answer alone only by doing nothing.
LEMMA AnswersOnce ==
  ASSUME [BackendNext]_backendVars, verdict' \in {"ok", "NoiseBudgetExceeded", "panic"}
  PROVE  \/ UNCHANGED backendVars
         \/ EvalStops \/ EvalAnswers \/ WalkStops \/ WalkAnswers \/ WalkPanics
<1>1. ASSUME Calls PROVE FALSE
  BY <1>1 DEF Calls, Refuse, Eval, EvalOutputs, SetPlainTextModulus
<1>2. ASSUME EvalGate \/ DropEvaluated \/ Descend \/ EvaluateNode \/ PopNode \/ NextRoot
      PROVE  FALSE
  BY <1>2 DEF EvalGate, DropEvaluated, Descend, EvaluateNode, PopNode, NextRoot, ReadyNode,
              InEval, InWalk, WalkTo, Evaluate
<1> QED
  BY <1>1, <1>2 DEF BackendNext, Steps

-----------------------------------------------------------------------------
\* Noise.

\* The noise of an operation on elements of the call fits, they being within the budget.
LEMMA NoiseInRange ==
  ASSUME BackendInv, CallHeld, NoiseFits, Mock, verdict \in {"running", "ok"},
         NEW l \in DOMAIN elems, NEW r \in DOMAIN elems, NEW op
  PROVE  ExactNoise(op, elems[l].noise, elems[r].noise) \in 0 .. NoiseWords - 1
<1> DEFINE x == elems[l].noise
           y == elems[r].noise
           b == backend.noise_budget
           square == b * b
           product == x * y
<1>1. /\ x \in Nat /\ y \in Nat /\ b \in Nat /\ max_so_far \in Nat
      /\ x <= max_so_far /\ y <= max_so_far /\ max_so_far <= b
  BY DEF BackendInv, BackendTypeOK, Tracked, Elem, Held
<1>2. square + 5 < NoiseWords
  BY DEF CallHeld, NoiseFits, Mock, MUL_COST
<1>3. NoiseWords \in Nat
  BY BackendAssumption
<1> HIDE DEF x, y, b
<1>4. x <= b /\ y <= b
  BY <1>1
<1>5. product <= square /\ product \in Nat /\ square \in Nat
  BY <1>1, <1>4, Products
<1>6. b <= square
  BY <1>1
<1> HIDE DEF square, product
<1>7. CASE op = "Mul"
  <2>1. ExactNoise(op, x, y) = product + 5
    BY <1>7 DEF ExactNoise, MUL_COST, product
  <2> QED
    BY <2>1, <1>2, <1>3, <1>5 DEF x, y
<1>8. CASE op # "Mul"
  <2>1. ExactNoise(op, x, y) = (IF x < y THEN y ELSE x) + 1
    BY <1>8 DEF ExactNoise, ADD_COST, Larger
  <2>2. ExactNoise(op, x, y) \in 0 .. NoiseWords - 1
    BY <2>1, <1>1, <1>2, <1>3, <1>4, <1>5, <1>6
  <2> QED
    BY <2>2 DEF x, y
<1> QED
  BY <1>7, <1>8

LEMMA NoiseIsNat ==
  ASSUME NEW op, NEW x \in Nat, NEW y \in Nat
  PROVE  ExactNoise(op, x, y) \in Nat
<1>1. x * y \in Nat
  OBVIOUS
<1> QED
  BY <1>1 DEF ExactNoise, Larger, MUL_COST, ADD_COST

\* The noise that is computed of the elements of the operands is the noise of the gate, if
\* it fits or a build that checks has not panicked.
LEMMA EvaluatedNoise ==
  ASSUME BackendInv, CallHeld, NoiseFits \/ OverflowChecks, Mock,
         verdict \in {"running", "ok"},
         NEW g \in Gates, Operands(circuit.gates[g]) \subseteq DOMAIN elems, ~ Fails(g),
         \A o \in Operands(circuit.gates[g]) : elems[o].noise = Noise[o]
  PROVE  Evaluated(g).noise = Noise[g]
<1> DEFINE n == circuit.gates[g]
<1>1. n \in Node /\ Noise[g] = NodeNoise(n, Noise)
  BY GateFacts, NoiseEquation DEF BackendInv
<1>2. CASE IsOp(n)
  <2>1. /\ n.lhs \in DOMAIN elems /\ elems[n.lhs].noise = Noise[n.lhs]
        /\ n.rhs \in DOMAIN elems /\ elems[n.rhs].noise = Noise[n.rhs]
    BY <1>1, <1>2, NodeKinds
  <2> DEFINE e == ExactNoise(n.op, elems[n.lhs].noise, elems[n.rhs].noise)
  <2>2. e \in 0 .. NoiseWords - 1
    <3>1. CASE NoiseFits
      BY <2>1, <3>1, NoiseInRange
    <3>2. CASE OverflowChecks
      <4>1. ~ e >= NoiseWords
        BY <1>2, <3>2 DEF Fails, NoiseOverflows
      <4>2. elems[n.lhs].noise \in Nat /\ elems[n.rhs].noise \in Nat
        BY <2>1 DEF BackendInv, BackendTypeOK, Elem
      <4>3. e \in Nat
        BY <4>2, NoiseIsNat
      <4>4. NoiseWords \in Nat
        BY BackendAssumption
      <4> HIDE DEF e
      <4> QED
        BY <4>1, <4>3, <4>4
    <3> QED
      BY <3>1, <3>2
  <2>3. Evaluated(g).noise = e % NoiseWords
    BY <1>2 DEF Evaluated, Combine, Element, IsOp, IsInput, IsConst
  <2>4. e % NoiseWords = e
    <3>1. NoiseWords \in Nat \ {0}
      BY BackendAssumption
    <3> HIDE DEF e
    <3> QED
      BY <2>2, <3>1, SmallRemainder
  <2>5. Noise[g] = ExactNoise(n.op, Noise[n.lhs], Noise[n.rhs])
    BY <1>1, <1>2, NodeKinds DEF NodeNoise
  <2> QED
    BY <2>1, <2>3, <2>4, <2>5
<1>3. CASE IsInput(n)
  BY <1>1, <1>3, NodeKinds DEF NodeNoise, Evaluated, FromInput, Element
<1>4. CASE IsConst(n)
  BY <1>1, <1>4, NodeKinds DEF NodeNoise, Evaluated, FromConstant, Element
<1> QED
  BY <1>1, <1>2, <1>3, <1>4, NodeKinds

\* So the elements have the noise of their gates: by induction along the circuit.
LEMMA ElementsNoise ==
  ASSUME BackendInv, CallHeld, NoiseFits \/ OverflowChecks, Mock,
         verdict \in {"running", "ok"}
  PROVE  \A g \in DOMAIN elems : elems[g].noise = Noise[g]
<1> DEFINE S == {g \in Gates : g \in DOMAIN elems => elems[g].noise = Noise[g]}
<1>1. /\ Len(circuit.gates) \in Nat /\ Gates = 1 .. Len(circuit.gates)
      /\ \A g \in Gates : Operands(circuit.gates[g]) \subseteq 1 .. g - 1
  BY GateFacts DEF BackendInv
<1>2. ASSUME NEW g \in Gates, (1 .. g - 1) \subseteq S
      PROVE  g \in S
  <2> SUFFICES ASSUME g \in DOMAIN elems
               PROVE  elems[g].noise = Noise[g]
    OBVIOUS
  <2>1. /\ Operands(circuit.gates[g]) \subseteq DOMAIN elems
        /\ ~ Fails(g) /\ elems[g] = Evaluated(g)
    BY DEF BackendInv, EachFromItsOperands
  <2>2. \A o \in Operands(circuit.gates[g]) : elems[o].noise = Noise[o]
    BY <1>1, <1>2, <2>1
  <2> HIDE DEF S
  <2> QED
    BY <2>1, <2>2, EvaluatedNoise
<1>3. Gates \subseteq S
  <2> HIDE DEF S
  <2> QED
    BY <1>1, <1>2, PositionInduction
<1> QED
  BY <1>3 DEF BackendInv, BackendTypeOK

\* The noise of the gates depends on the circuit only.
LEMMA NoiseKept ==
  ASSUME circuit' = circuit
  PROVE  Noise' = Noise /\ Gates' = Gates
BY DEF Noise, NodeNoise, Gates, ExactNoise, Larger, ENC_NOISE, MUL_COST, ADD_COST

\* The tracker starts from zero and then has a gate with the maximum; a call that was
\* refused stopped at the gate it has.
TrackerHeld ==
  Mock =>
    /\ verdict \in {"running", "ok"} =>
         \/ DOMAIN elems = {} /\ max_so_far = 0
         \/ index \in DOMAIN elems /\ elems[index].noise = max_so_far
    /\ verdict = "NoiseBudgetExceeded" =>
         index \in Asked /\ Noise[index] > backend.noise_budget

LEMMA EvaluateTracks ==
  ASSUME BackendInv, TrackerHeld, verdict = "running",
         NEW g \in Gates, g \notin DOMAIN elems,
         Operands(circuit.gates[g]) \subseteq DOMAIN elems,
         Evaluate(g)
  PROVE  TrackerHeld'
<1>1. /\ UNCHANGED <<backend, verdict>>
      /\ DOMAIN elems' = DOMAIN elems \cup {g} /\ elems'[g] = Evaluated(g)
      /\ \A h \in DOMAIN elems : elems'[h] = elems[h]
      /\ Update(Evaluated(g).noise, g)
  BY DEF Evaluate
<1>2. Evaluated(g).noise \in Nat
  BY EvaluatedIsElem DEF Evaluate, Elem
<1> SUFFICES ASSUME Mock
             PROVE  index' \in DOMAIN elems' /\ elems'[index'].noise = max_so_far'
  BY <1>1 DEF TrackerHeld, Mock
<1>3. CASE Evaluated(g).noise >= max_so_far
  BY <1>1, <1>3 DEF Update
<1>4. CASE ~ Evaluated(g).noise >= max_so_far
  <2>1. max_so_far' = max_so_far /\ index' = index
    BY <1>1, <1>4 DEF Update
  <2>2. max_so_far # 0
    BY <1>2, <1>4
  <2>3. index \in DOMAIN elems /\ elems[index].noise = max_so_far
    BY <2>2, <1>1 DEF TrackerHeld
  <2> QED
    BY <2>1, <2>3, <1>1
<1> QED
  BY <1>3, <1>4

LEMMA ExceedTracks ==
  ASSUME BackendInv, CallHeld, NoiseFits \/ OverflowChecks, verdict = "running",
         NEW g \in Asked, g \in Gates,
         Operands(circuit.gates[g]) \subseteq DOMAIN elems, Exceed(g)
  PROVE  TrackerHeld'
<1>1. /\ UNCHANGED <<backend, call, circuit>> /\ ~ Fails(g)
      /\ verdict' = "NoiseBudgetExceeded"
      /\ Update(Evaluated(g).noise, g) /\ Exceeds(Evaluated(g).noise)
  BY DEF Exceed
<1>2. Noise' = Noise /\ Asked' = Asked
  BY <1>1, NoiseKept DEF Asked, Gates
<1> SUFFICES ASSUME Mock
             PROVE  index' \in Asked /\ Noise[index'] > backend.noise_budget
  BY <1>1, <1>2 DEF TrackerHeld, Mock
<1>3. \A o \in Operands(circuit.gates[g]) : elems[o].noise = Noise[o]
  BY ElementsNoise
<1>4. Evaluated(g).noise = Noise[g]
  BY <1>1, <1>3, EvaluatedNoise
<1>5. index' = g /\ Noise[g] > backend.noise_budget
  BY <1>1, <1>4 DEF Update, Exceeds
<1> QED
  BY <1>5

LEMMA TrackerKept ==
  ASSUME BackendInv, CallHeld, NoiseFits \/ OverflowChecks, TrackerHeld,
         [BackendNext]_backendVars
  PROVE  TrackerHeld'
<1>1. CASE Calls
  <2>1. ASSUME NEW q \in Moduli, SetPlainTextModulus(q)
        PROVE  TrackerHeld'
    BY <2>1 DEF SetPlainTextModulus, TrackerHeld
  <2>2. ASSUME NEW c \in GivenCircuits, NEW args \in Arguments, NEW how, Refuse(how, c, args)
        PROVE  TrackerHeld'
    BY <2>2 DEF Refuse, TrackerHeld
  <2>3. ASSUME NEW c \in GivenCircuits, NEW args \in Arguments,
               Eval(c, args) \/ EvalOutputs(c, args)
        PROVE  TrackerHeld'
    <3>1. /\ TakeModulus(c.plain_text_modulus) /\ Reset
          /\ elems' = << >> /\ verdict' = "running"
      BY <2>3 DEF Eval, EvalOutputs, Receive
    <3>2. backend'.kind = backend.kind
      BY <3>1, GivenCompiled, ModulusTaken
    <3>3. DOMAIN elems' = {}
      BY <3>1
    <3> QED
      BY <3>1, <3>2, <3>3 DEF TrackerHeld, Mock, Reset
  <2> QED
    BY <1>1, <2>1, <2>2, <2>3 DEF Calls
<1>2. CASE EvalGate
  BY <1>2, TurnInEval, EvaluateTracks DEF EvalGate, InEval
<1>3. CASE EvaluateNode
  BY <1>3, NodeReady, EvaluateTracks DEF EvaluateNode, InWalk
<1>4. CASE Panic
  BY <1>4 DEF Panic, TrackerHeld
<1>5. CASE EvalStops
  <2>1. /\ verdict = "running" /\ at \in Gates /\ at \in Asked
        /\ Operands(circuit.gates[at]) \subseteq DOMAIN elems
    BY <1>5, TurnInEval DEF EvalStops, InEval, Asked
  <2> QED
    BY <1>4, <1>5, <2>1, ExceedTracks DEF EvalStops
<1>6. CASE WalkStops
  <2>1. /\ verdict = "running" /\ current \in Gates
        /\ Operands(circuit.gates[current]) \subseteq DOMAIN elems
        /\ InWalk /\ current # 0
    BY <1>6, NodeReady DEF WalkStops, ReadyNode, InWalk
  <2>2. current \in Asked
    BY <2>1, WalkFacts DEF Asked, Work
  <2> QED
    BY <1>4, <1>6, <2>1, <2>2, ExceedTracks DEF WalkStops
<1>7. CASE /\ UNCHANGED <<backend, max_so_far, index, elems, call, circuit>>
           /\ verdict = "running" /\ verdict' \in {"running", "ok"}
  BY <1>7 DEF TrackerHeld, Mock
<1>8. CASE EvalAnswers \/ WalkAnswers
  BY <1>7, <1>8 DEF EvalAnswers, WalkAnswers, InEval, InWalk, Walked
<1>9. CASE DropEvaluated \/ Descend \/ PopNode \/ NextRoot
  BY <1>7, <1>9 DEF DropEvaluated, Descend, PopNode, NextRoot, InWalk, WalkTo
<1>10. CASE UNCHANGED backendVars
  <2>1. UNCHANGED <<backend, max_so_far, index, elems, call, circuit, verdict>>
    BY <1>10 DEF backendVars
  <2>2. Noise' = Noise /\ Asked' = Asked
    BY <2>1, NoiseKept DEF Asked, Gates
  <2> QED
    BY <2>1, <2>2 DEF TrackerHeld, Mock
<1> QED
  BY <1>1, <1>2, <1>3, <1>4, <1>5, <1>6, <1>8, <1>9, <1>10
     DEF BackendNext, Steps, WalkPanics

\* A call is refused exactly if a gate that it asks for has more noise than the budget,
\* although only new maxima are compared with it; and the tracker names a gate of it.  In a
\* build that wraps, the budgets have to be such that no noise does (mock_fhe.rs:61).
THEOREM BudgetVerdictRight ==
  ASSUME NoiseFits \/ OverflowChecks
  PROVE  BackendSpec => []BudgetVerdict
<1>1. BackendInit => TrackerHeld
  BY DEF BackendInit, TrackerHeld
<1>2. ASSUME BackendInv, CallHeld, TrackerHeld, [BackendNext]_backendVars
      PROVE  TrackerHeld'
  BY <1>2, TrackerKept
<1>3. ASSUME BackendInv, CallHeld, TrackerHeld
      PROVE  BudgetVerdict
  <2> SUFFICES ASSUME Mock
               PROVE  BudgetVerdict
    BY DEF BudgetVerdict
  <2>1. CASE verdict = "ok"
    <3>1. DOMAIN elems = Asked /\ \A g \in DOMAIN elems : elems[g].noise = Noise[g]
      BY <1>3, <2>1, ElementsNoise DEF BackendInv, AnswersExact
    <3>2. \A g \in DOMAIN elems : elems[g].noise \in Nat /\ elems[g].noise <= max_so_far
      BY <1>3, <2>1 DEF BackendInv, BackendTypeOK, Elem, Tracked
    <3>3. max_so_far \in Nat /\ backend.noise_budget \in Nat /\ max_so_far <= backend.noise_budget
      BY <1>3, <2>1 DEF BackendInv, BackendTypeOK, Held, Tracked
    <3>4. \A g \in Asked : Noise[g] <= max_so_far /\ Noise[g] <= backend.noise_budget
      BY <3>1, <3>2, <3>3
    <3>5. Asked # {} => index \in Asked /\ Noise[index] = max_so_far
      BY <1>3, <2>1, <3>1 DEF TrackerHeld
    <3> QED
      BY <2>1, <3>4, <3>5 DEF BudgetVerdict
  <2>2. CASE verdict = "NoiseBudgetExceeded"
    <3>1. index \in Asked /\ Noise[index] > backend.noise_budget
      BY <1>3, <2>2 DEF TrackerHeld
    <3>2. index \in Gates
      BY <3>1, LiveInDomain DEF Asked, Gates
    <3>3. Noise[index] \in Nat /\ backend.noise_budget \in Nat
      BY <1>3, <3>2, NoiseEquation DEF BackendInv, BackendTypeOK, Held
    <3>4. ~ Noise[index] <= backend.noise_budget
      BY <3>1, <3>3
    <3> QED
      BY <2>2, <3>1, <3>4 DEF BudgetVerdict
  <2> QED
    BY <2>1, <2>2 DEF BudgetVerdict
<1> QED
  BY <1>1, <1>2, <1>3, BackendInvHolds, CallHeldInvariant, PTL DEF BackendSpec

-----------------------------------------------------------------------------
\* Panics.

\* A gate whose operands are there fails only for want of an argument, or for noise that
\* does not fit.
LEMMA FailureExplained ==
  ASSUME BackendInv, CallHeld, verdict = "running", NEW g \in Gates, g \in Asked,
         Operands(circuit.gates[g]) \subseteq DOMAIN elems, Fails(g)
  PROVE  ~ Evaluable \/ NoiseTooGreat
<1> DEFINE n == circuit.gates[g]
<1>1. n \in Node
  BY GateFacts DEF BackendInv
<1>2. CASE IsInput(n) /\ n.index + 1 \notin DOMAIN with
  <2>1. Len(with) \in Nat /\ DOMAIN with = 1 .. Len(with) /\ NumInputs(circuit) = Len(with)
    BY LenProperties DEF BackendInv, CallGiven, CallHeld
  <2>2. n.index \in Nat
    BY <1>1, <1>2, DagAssumption DEF Node, IsInput
  <2>3. n.index + 1 \notin 1 .. Len(with)
    BY <1>2, <2>1
  <2>4. ~ n.index < NumInputs(circuit)
    <3> DEFINE i == n.index
               k == Len(with)
    <3>1. i \in Nat /\ k \in Nat /\ i + 1 \notin 1 .. k /\ NumInputs(circuit) = k
      BY <2>1, <2>2, <2>3
    <3> HIDE DEF i, k
    <3>2. ~ i < k
      BY <3>1
    <3> QED
      BY <3>1, <3>2 DEF i
  <2> QED
    BY <1>2, <2>4 DEF Evaluable
<1>3. CASE IsOp(n) /\ OverflowChecks
             /\ NoiseOverflows(n.op, elems[n.lhs].noise, elems[n.rhs].noise)
  <2>1. n.lhs \in DOMAIN elems /\ n.rhs \in DOMAIN elems
    BY <1>1, <1>3, NodeKinds
  <2>2. Mock /\ ExactNoise(n.op, elems[n.lhs].noise, elems[n.rhs].noise) >= NoiseWords
    BY <1>3 DEF NoiseOverflows
  <2>3. elems[n.lhs].noise = Noise[n.lhs] /\ elems[n.rhs].noise = Noise[n.rhs]
    BY <1>3, <2>1, <2>2, ElementsNoise
  <2>4. Noise[g] = ExactNoise(n.op, Noise[n.lhs], Noise[n.rhs])
    <3>1. Noise[g] = NodeNoise(n, Noise)
      BY NoiseEquation DEF BackendInv
    <3> QED
      BY <1>1, <1>3, <3>1, NodeKinds DEF NodeNoise
  <2> QED
    BY <1>3, <2>2, <2>3, <2>4 DEF NoiseTooGreat
<1> QED
  BY <1>2, <1>3 DEF Fails

\* A panic is the fault of the circuit: it lacks an input below one that it uses, has a
\* gate as an output twice, or asks for a gate whose noise a usize does not hold, in a build
\* that checks.
THEOREM OnlyThesePanic == BackendSpec => []EvaluableNeverPanics
<1>1. BackendInit => EvaluableNeverPanics
  BY DEF BackendInit, EvaluableNeverPanics
<1>2. ASSUME BackendInv, CallHeld, EvaluableNeverPanics, [BackendNext]_backendVars
      PROVE  EvaluableNeverPanics'
  <2> SUFFICES ASSUME verdict' = "panic"
               PROVE  ~ Evaluable' \/ NoiseTooGreat'
    BY DEF EvaluableNeverPanics
  <2>1. ASSUME UNCHANGED <<circuit, backend, call>>, ~ Evaluable \/ NoiseTooGreat
        PROVE  ~ Evaluable' \/ NoiseTooGreat'
    <3>1. Evaluable' <=> Evaluable
      BY <2>1 DEF Evaluable, Gates, OutputsTwice, NumInputs
    <3>2. NoiseTooGreat => NoiseTooGreat'
      <4>1. Noise' = Noise /\ Asked' = Asked
        BY <2>1, NoiseKept DEF Asked
      <4> QED
        BY <2>1, <4>1 DEF NoiseTooGreat, Mock
    <3> QED
      BY <2>1, <3>1, <3>2
  <2>2. CASE UNCHANGED backendVars
    <3>1. verdict = "panic" /\ UNCHANGED <<circuit, backend, call>>
      BY <2>2 DEF backendVars
    <3> QED
      BY <1>2, <2>1, <3>1 DEF EvaluableNeverPanics
  <2>3. CASE EvalStops
    <3>1. Fails(at) /\ UNCHANGED <<circuit, backend, call>> /\ verdict = "running"
      BY <2>3 DEF EvalStops, Exceed, Panic, InEval
    <3>2. /\ at \in Gates /\ at \in Asked
          /\ Operands(circuit.gates[at]) \subseteq DOMAIN elems
      BY <1>2, <2>3, TurnInEval DEF EvalStops, InEval, Asked
    <3> QED
      BY <1>2, <2>1, <3>1, <3>2, FailureExplained
  <2>4. CASE WalkStops
    <3>1. Fails(current) /\ UNCHANGED <<circuit, backend, call>> /\ ReadyNode
      BY <2>4 DEF WalkStops, Exceed, Panic
    <3>2. /\ current \in Gates /\ Operands(circuit.gates[current]) \subseteq DOMAIN elems
          /\ verdict = "running" /\ InWalk /\ current # 0
      BY <1>2, <3>1, NodeReady DEF ReadyNode, InWalk
    <3>3. current \in Asked
      BY <1>2, <3>2, WalkFacts DEF Asked, Work
    <3> QED
      BY <1>2, <2>1, <3>1, <3>2, <3>3, FailureExplained
  <2>5. CASE WalkPanics
    <3>1. UNCHANGED <<circuit, backend, call>> /\ ~ Evaluable
      BY <2>5 DEF WalkPanics, Panic, Evaluable
    <3> QED
      BY <2>1, <3>1
  <2>6. ~ EvalAnswers /\ ~ WalkAnswers
    BY DEF EvalAnswers, WalkAnswers
  <2> QED
    BY <1>2, <2>2, <2>3, <2>4, <2>5, <2>6, AnswersOnce
<1> QED
  BY <1>1, <1>2, BackendInvHolds, CallHeldInvariant, PTL DEF BackendSpec

-----------------------------------------------------------------------------
\* Values.

\* The moduli with which words compute what integers do: those that divide the number
\* of words, and those whose residues no operation takes out of range.
ModuliSafe ==
  \A q \in Moduli :
    \/ DividesWordSize(q)
    \/ \A op \in Ops, x, y \in 0 .. q - 1 : ~ Overflows(op, x, y)

\* The value that is computed of the elements of the operands means its gate.
LEMMA EvaluatedMeans ==
  ASSUME BackendInv, CallHeld, ModuliSafe, verdict \in {"running", "ok"},
         NEW g \in Gates, Operands(circuit.gates[g]) \subseteq DOMAIN elems, ~ Fails(g),
         \A o \in Operands(circuit.gates[g]) :
           elems[o].value = Meaning[o] % circuit.plain_text_modulus
  PROVE  Evaluated(g).value = Meaning[g] % circuit.plain_text_modulus
<1> DEFINE n == circuit.gates[g]
           q == circuit.plain_text_modulus
<1>1. n \in Node /\ Meaning[g] = NodeMeaning(n, Meaning)
  BY GateFacts, MeaningEquation DEF BackendInv
<1>2. /\ q = backend.plain_text_modulus /\ q \in Moduli
      /\ q \in 1 .. WordSize - 1 /\ WordSize \in Nat
  <2>1. q = backend.plain_text_modulus /\ q \in Moduli /\ backend.plain_text_modulus \in Word \ {0}
    BY DEF BackendInv, BackendTypeOK, InModulus, Held, CallHeld
  <2> QED
    BY <2>1, WordsAssumption DEF Word
<1>3. CASE IsOp(n)
  <2> DEFINE x == Meaning[n.lhs]
             y == Meaning[n.rhs]
             a == x % q
             b == y % q
  <2>1. /\ n.op \in BinOp /\ n.op \in Ops
        /\ n.lhs \in DOMAIN elems /\ elems[n.lhs].value = a
        /\ n.rhs \in DOMAIN elems /\ elems[n.rhs].value = b
    BY <1>1, <1>3, NodeKinds, DagAssumption
  <2>2. x \in Int /\ y \in Int
    BY <2>1, MeaningEquation DEF BackendInv, BackendTypeOK
  <2>3. Meaning[g] = Exact(n.op, x, y)
    BY <1>1, <1>3, NodeKinds DEF NodeMeaning
  <2>4. Evaluated(g).value = MachineOp(n.op, a, b) % q
    BY <1>2, <1>3, <2>1 DEF Evaluated, Combine, Element, IsOp, IsInput, IsConst
  <2>5. ~ Overflows(n.op, a, b) \/ DividesWordSize(q)
    <3>1. a \in 0 .. q - 1 /\ b \in 0 .. q - 1
      BY <1>2, <2>2
    <3> QED
      BY <1>2, <2>1, <3>1 DEF ModuliSafe
  <2>6. a \in Word /\ b \in Word
    BY <1>2, <2>2 DEF Word
  <2> HIDE DEF a, b, x, y, q
  <2>7. q \in Nat \ {0}
    BY <1>2
  <2>8. MachineOp(n.op, a, b) % q = Exact(n.op, a, b) % q
    BY <2>1, <2>5, <2>6, <2>7, MachineOpMeans
  <2>9. Exact(n.op, a, b) % q = Exact(n.op, x, y) % q
    BY <2>1, <2>2, <2>7, ExactMod DEF a, b
  <2> QED
    BY <2>3, <2>4, <2>8, <2>9 DEF q
<1>4. CASE IsInput(n)
  <2>1. n.index + 1 \in DOMAIN with
    BY <1>4 DEF Fails
  <2>2. Meaning[g] = with[n.index + 1]
    BY <1>1, <1>4, <2>1, NodeKinds DEF NodeMeaning
  <2>3. Evaluated(g) = FromInput(with[n.index + 1])
    BY <1>1, <1>4, NodeKinds DEF Evaluated
  <2>4. Evaluated(g).value = with[n.index + 1] % backend.plain_text_modulus
    BY <2>3 DEF FromInput, Element
  <2> QED
    BY <1>2, <2>2, <2>4
<1>5. CASE IsConst(n)
  BY <1>1, <1>2, <1>5, NodeKinds DEF NodeMeaning, Evaluated, FromConstant, Element
<1> QED
  BY <1>1, <1>3, <1>4, <1>5, NodeKinds

LEMMA ElementsMean ==
  ASSUME BackendInv, CallHeld, ModuliSafe, verdict \in {"running", "ok"}
  PROVE  \A g \in DOMAIN elems : elems[g].value = Meaning[g] % circuit.plain_text_modulus
<1> DEFINE S == {g \in Gates : g \in DOMAIN elems =>
                   elems[g].value = Meaning[g] % circuit.plain_text_modulus}
<1>1. /\ Len(circuit.gates) \in Nat /\ Gates = 1 .. Len(circuit.gates)
      /\ \A g \in Gates : Operands(circuit.gates[g]) \subseteq 1 .. g - 1
  BY GateFacts DEF BackendInv
<1>2. ASSUME NEW g \in Gates, (1 .. g - 1) \subseteq S
      PROVE  g \in S
  <2> SUFFICES ASSUME g \in DOMAIN elems
               PROVE  elems[g].value = Meaning[g] % circuit.plain_text_modulus
    OBVIOUS
  <2>1. Operands(circuit.gates[g]) \subseteq DOMAIN elems /\ elems[g] = Evaluated(g) /\ ~ Fails(g)
    BY DEF BackendInv, EachFromItsOperands
  <2>2. \A o \in Operands(circuit.gates[g]) :
          elems[o].value = Meaning[o] % circuit.plain_text_modulus
    BY <1>1, <1>2, <2>1
  <2> HIDE DEF S
  <2> QED
    BY <2>1, <2>2, EvaluatedMeans
<1>3. Gates \subseteq S
  <2> HIDE DEF S
  <2> QED
    BY <1>1, <1>2, PositionInduction
<1> QED
  BY <1>3 DEF BackendInv, BackendTypeOK

\* The results are the elements of the gates they answer for.
ResultsHeld ==
  verdict = "ok" =>
    /\ DOMAIN results = DOMAIN Answered
    /\ \A i \in DOMAIN Answered : results[i] = elems[Answered[i]]

LEMMA ResultsKept ==
  ASSUME BackendInv, ResultsHeld, [BackendNext]_backendVars
  PROVE  ResultsHeld'
<1> SUFFICES ASSUME verdict' = "ok"
             PROVE  ResultsHeld'
  BY DEF ResultsHeld
<1>1. CASE UNCHANGED backendVars
  <2>1. UNCHANGED <<call, circuit, elems, results, verdict>>
    BY <1>1 DEF backendVars
  <2> QED
    BY <2>1 DEF ResultsHeld, Answered, Gates
<1>2. CASE EvalAnswers
  <2>1. /\ verdict = "running" /\ call' = "eval" /\ results' = elems' /\ elems' = elems
        /\ circuit' = circuit
    BY <1>2 DEF EvalAnswers, InEval
  <2>2. BackendInv'
    BY StepHolds
  <2>3. DOMAIN elems' = Gates'
    BY <2>1, <2>2 DEF BackendInv, AnswersExact, Asked
  <2> QED
    BY <2>1, <2>3 DEF ResultsHeld, Answered
<1>3. CASE WalkAnswers
  BY <1>3 DEF WalkAnswers, Walked, InWalk, ResultsHeld, Answered
<1>4. ~ EvalStops /\ ~ WalkStops /\ ~ WalkPanics
  BY DEF EvalStops, WalkStops, WalkPanics, Exceed, Panic
<1> QED
  BY <1>1, <1>2, <1>3, <1>4, AnswersOnce

\* An answer is about gates that have been evaluated.
LEMMA AnsweredEvaluated ==
  ASSUME BackendInv, verdict = "ok"
  PROVE  \A i \in DOMAIN Answered : Answered[i] \in DOMAIN elems
<1>1. DOMAIN elems = Asked
  BY DEF BackendInv, AnswersExact
<1>2. CASE call = "eval"
  BY <1>1, <1>2 DEF Answered, Asked
<1>3. CASE call # "eval"
  <2>1. circuit.outputs \in Seq(Gates)
    BY DEF BackendInv, CallGiven
  <2>2. Range(circuit.outputs) \subseteq Live(circuit.gates, Range(circuit.outputs))
    BY <2>1, LiveHoldsRoots, RangeInSet DEF Gates
  <2> QED
    BY <1>1, <1>3, <2>2 DEF Answered, Asked, Range
<1> QED
  BY <1>2, <1>3

\* Every answer is what the gates compute on integers, modulo the modulus of the circuit:
\* for moduli that divide the number of words or whose residues stay in range.  That the
\* others need not, BackendDifference shows.
THEOREM ResultsAreRight ==
  ASSUME ModuliSafe
  PROVE  BackendSpec => []ResultsRight
<1>1. BackendInit => ResultsHeld
  BY DEF BackendInit, ResultsHeld
<1>2. ASSUME BackendInv, ResultsHeld, [BackendNext]_backendVars
      PROVE  ResultsHeld'
  BY <1>2, ResultsKept
<1>3. ASSUME BackendInv, CallHeld, ResultsHeld
      PROVE  ResultsRight
  <2> SUFFICES ASSUME verdict = "ok"
               PROVE  /\ DOMAIN results = DOMAIN Answered
                      /\ \A i \in DOMAIN Answered :
                           results[i].value = Meaning[Answered[i]] % circuit.plain_text_modulus
    BY DEF ResultsRight
  <2>2. \A i \in DOMAIN Answered : Answered[i] \in DOMAIN elems
    BY <1>3, AnsweredEvaluated
  <2>3. \A g \in DOMAIN elems : elems[g].value = Meaning[g] % circuit.plain_text_modulus
    BY <1>3, ElementsMean
  <2>4. DOMAIN results = DOMAIN Answered
        /\ \A i \in DOMAIN Answered : results[i] = elems[Answered[i]]
    BY <1>3 DEF ResultsHeld
  <2> QED
    BY <2>2, <2>3, <2>4
<1> QED
  BY <1>1, <1>2, <1>3, BackendInvHolds, CallHeldInvariant, PTL DEF BackendSpec

-----------------------------------------------------------------------------
\* Depths.

\* What GetDepth and Paths say of a gate, given the gates before it.
NodeDepth(n, own, depth) ==
  own + IF IsOp(n) THEN Larger(depth[n.lhs], depth[n.rhs]) ELSE 0

NodePaths(nodes, g, paths) ==
  IF Operands(nodes[g]) = {} THEN {<<g>>}
  ELSE {<<g>> \o p : p \in UNION {paths[o] : o \in Operands(nodes[g])}}

Ordered(nodes) == nodes \in Seq(Node) /\ Topological(nodes)
Counts(nodes, count) == \A g \in DOMAIN nodes : count[g] \in Nat

\* GetDepth solves its equation.
LEMMA DepthEquation ==
  ASSUME NEW nodes, Ordered(nodes), NEW count, Counts(nodes, count)
  PROVE  \A g \in DOMAIN nodes :
           /\ GetDepth(nodes, count)[g] \in Nat
           /\ GetDepth(nodes, count)[g]
                = NodeDepth(nodes[g], count[g], GetDepth(nodes, count))
<1>0. GetDepth(nodes, count)
        = CHOOSE f : f = [g \in DOMAIN nodes |-> NodeDepth(nodes[g], count[g], f)]
  BY DEF GetDepth, NodeDepth
<1> DEFINE N == Len(nodes)
           P(f) == f = [g \in DOMAIN nodes |-> NodeDepth(nodes[g], count[g], f)]
           step == [p \in (1 .. N) \X [1 .. N -> Nat] |->
                      NodeDepth(nodes[p[1]], count[p[1]], p[2])]
           d == GetDepth(nodes, count)
<1>1. /\ N \in Nat /\ DOMAIN nodes = 1 .. N
      /\ \A g \in 1 .. N : /\ count[g] \in Nat
                           /\ IsOp(nodes[g]) => nodes[g].lhs \in 1 .. g - 1
                                                /\ nodes[g].rhs \in 1 .. g - 1
  BY OperandsBefore DEF Ordered, Counts
<1>2. ASSUME NEW g \in 1 .. N, NEW f,
             IsOp(nodes[g]) => f[nodes[g].lhs] \in Nat /\ f[nodes[g].rhs] \in Nat
      PROVE  NodeDepth(nodes[g], count[g], f) \in Nat
  BY <1>1, <1>2 DEF NodeDepth, Larger
<1>3. Causal(N, Nat, step)
  <2>1. ASSUME NEW g \in 1 .. N, NEW f \in [1 .. N -> Nat]
        PROVE  NodeDepth(nodes[g], count[g], f) \in Nat
    <3>1. IsOp(nodes[g]) => f[nodes[g].lhs] \in Nat /\ f[nodes[g].rhs] \in Nat
      BY <1>1
    <3> QED
      BY <3>1, <1>2
  <2>2. step \in [(1 .. N) \X [1 .. N -> Nat] -> Nat]
    BY <2>1
  <2>3. \A g \in 1 .. N : \A f, h \in [1 .. N -> Nat] :
          (\A k \in 1 .. g - 1 : f[k] = h[k]) => step[<<g, f>>] = step[<<g, h>>]
    BY <1>1 DEF NodeDepth
  <2> QED
    BY <2>2, <2>3 DEF Causal
<1>4. PICK f : Solves(f, N, Nat, step)
  <2>1. Nat # {}
    OBVIOUS
  <2> HIDE DEF step, N
  <2> QED
    BY <1>1, <1>3, <2>1, RecursionSolvable
<1>5. f \in [1 .. N -> Nat] /\ \A g \in 1 .. N : f[g] = NodeDepth(nodes[g], count[g], f)
  <2>1. \A g \in 1 .. N : \A h \in [1 .. N -> Nat] :
          step[<<g, h>>] = NodeDepth(nodes[g], count[g], h)
    OBVIOUS
  <2> HIDE DEF N, step
  <2> QED
    BY <1>4, <2>1 DEF Solves
<1> HIDE DEF N, step
<1>6. P(f)
  BY <1>1, <1>5
<1>7. P(d)
  <2>1. d = CHOOSE h : P(h)
    BY <1>0
  <2> HIDE DEF P, d
  <2> QED
    BY <1>6, <2>1
<1> HIDE DEF d
<1>8. \A g \in 1 .. N : d[g] = NodeDepth(nodes[g], count[g], d)
  BY <1>1, <1>7
<1>9. 1 .. N \subseteq {g \in 1 .. N : d[g] \in Nat}
  <2> DEFINE S == {g \in 1 .. N : d[g] \in Nat}
  <2>1. ASSUME NEW g \in 1 .. N, (1 .. g - 1) \subseteq S
        PROVE  g \in S
    <3>1. IsOp(nodes[g]) => d[nodes[g].lhs] \in Nat /\ d[nodes[g].rhs] \in Nat
      BY <2>1, <1>1
    <3> QED
      BY <3>1, <1>2, <1>8
  <2> HIDE DEF S
  <2>2. 1 .. N \subseteq S
    BY <1>1, <2>1, PositionInduction
  <2> QED
    BY <2>2 DEF S
<1> QED
  BY <1>1, <1>8, <1>9 DEF d

\* And so does Paths; a path goes through gates.
LEMMA PathsEquation ==
  ASSUME NEW nodes, Ordered(nodes)
  PROVE  \A g \in DOMAIN nodes : Paths(nodes)[g] = NodePaths(nodes, g, Paths(nodes))
<1>0. Paths(nodes) = CHOOSE f : f = [g \in DOMAIN nodes |-> NodePaths(nodes, g, f)]
  BY DEF Paths, NodePaths
<1> DEFINE N == Len(nodes)
           V == SUBSET Seq(Nat)
           P(f) == f = [g \in DOMAIN nodes |-> NodePaths(nodes, g, f)]
           step == [p \in (1 .. N) \X [1 .. N -> V] |-> NodePaths(nodes, p[1], p[2])]
           d == Paths(nodes)
<1>1. /\ N \in Nat /\ DOMAIN nodes = 1 .. N
      /\ \A g \in 1 .. N : Operands(nodes[g]) \subseteq 1 .. g - 1
  BY LenProperties DEF Ordered, Topological
<1>3. Causal(N, V, step)
  <2>1. ASSUME NEW g \in 1 .. N, NEW f \in [1 .. N -> V]
        PROVE  NodePaths(nodes, g, f) \in V
    <3>1. <<g>> \in Seq(Nat)
      OBVIOUS
    <3>2. \A o \in Operands(nodes[g]) : f[o] \subseteq Seq(Nat)
      BY <1>1
    <3>3. \A p \in UNION {f[o] : o \in Operands(nodes[g])} : p \in Seq(Nat)
      BY <3>2
    <3>4. \A p \in UNION {f[o] : o \in Operands(nodes[g])} : <<g>> \o p \in Seq(Nat)
      BY <3>1, <3>3, ConcatProperties
    <3> QED
      BY <3>1, <3>4 DEF NodePaths
  <2>2. step \in [(1 .. N) \X [1 .. N -> V] -> V]
    <3> HIDE DEF V
    <3> QED
      BY <2>1
  <2>3. ASSUME NEW g \in 1 .. N, NEW f \in [1 .. N -> V], NEW h \in [1 .. N -> V],
               \A k \in 1 .. g - 1 : f[k] = h[k]
        PROVE  step[<<g, f>>] = step[<<g, h>>]
    <3>1. \A o \in Operands(nodes[g]) : f[o] = h[o]
      BY <1>1, <2>3
    <3>2. {f[o] : o \in Operands(nodes[g])} = {h[o] : o \in Operands(nodes[g])}
      BY <3>1
    <3>3. NodePaths(nodes, g, f) = NodePaths(nodes, g, h)
      BY <3>2 DEF NodePaths
    <3> HIDE DEF V
    <3> QED
      BY <3>3
  <2> HIDE DEF step, V
  <2> QED
    BY <2>2, <2>3 DEF Causal
<1>4. PICK f : Solves(f, N, V, step)
  <2>1. V # {}
    OBVIOUS
  <2> HIDE DEF step, N, V
  <2> QED
    BY <1>1, <1>3, <2>1, RecursionSolvable
<1>5. f \in [1 .. N -> V] /\ \A g \in 1 .. N : f[g] = NodePaths(nodes, g, f)
  <2> HIDE DEF V
  <2>1. \A g \in 1 .. N : \A h \in [1 .. N -> V] : step[<<g, h>>] = NodePaths(nodes, g, h)
    OBVIOUS
  <2> HIDE DEF N, step
  <2> QED
    BY <1>4, <2>1 DEF Solves
<1> HIDE DEF N, step, V
<1>6. P(f)
  BY <1>1, <1>5
<1>7. P(d)
  <2>1. d = CHOOSE h : P(h)
    BY <1>0
  <2> HIDE DEF P, d
  <2> QED
    BY <1>6, <2>1
<1> HIDE DEF d
<1>8. \A g \in DOMAIN nodes : d[g] = NodePaths(nodes, g, d)
  BY <1>7
<1> QED
  BY <1>8 DEF d

\* How many of the gates of a path are in H.
Weight(H, p) == Cardinality({i \in DOMAIN p : p[i] \in H})

LEMMA WeightOfOne ==
  ASSUME NEW H, NEW g
  PROVE  Weight(H, <<g>>) = IF g \in H THEN 1 ELSE 0
<1> DEFINE A == {i \in DOMAIN <<g>> : <<g>>[i] \in H}
<1>1. A = IF g \in H THEN {1} ELSE {}
  OBVIOUS
<1> HIDE DEF A
<1>2. Cardinality(A) = IF g \in H THEN 1 ELSE 0
  BY <1>1, FS_Singleton, FS_EmptySet
<1> QED
  BY <1>2 DEF A, Weight

\* A path that begins with one more gate weighs as much more as that gate.
LEMMA WeightOfPath ==
  ASSUME NEW H, NEW g \in Nat, NEW p \in Seq(Nat)
  PROVE  /\ Weight(H, p) \in Nat
         /\ Weight(H, <<g>> \o p) = (IF g \in H THEN 1 ELSE 0) + Weight(H, p)
<1> DEFINE n == Len(p)
           q == <<g>> \o p
           A == {i \in DOMAIN p : p[i] \in H}
           B == {i \in DOMAIN q : q[i] \in H}
           C == {i \in B : i # 1}
           f == [i \in A |-> i + 1]
<1>1. n \in Nat /\ DOMAIN p = 1 .. n
  BY LenProperties
<1>2. /\ Len(q) = n + 1 /\ DOMAIN q = 1 .. n + 1
      /\ q[1] = g /\ \A i \in 1 .. n : q[i + 1] = p[i]
  <2>1. <<g>> \in Seq(Nat) /\ Len(<<g>>) = 1 /\ <<g>>[1] = g
    OBVIOUS
  <2> HIDE DEF q
  <2>2. /\ q \in Seq(Nat) /\ Len(q) = 1 + n
        /\ \A i \in 1 .. 1 + n : q[i] = IF i <= 1 THEN <<g>>[i] ELSE p[i - 1]
    BY <2>1, ConcatProperties DEF q
  <2>3. DOMAIN q = 1 .. Len(q)
    BY <2>2, LenProperties
  <2>4. q[1] = g
    BY <2>1, <2>2, <1>1
  <2>5. ASSUME NEW i \in 1 .. n PROVE q[i + 1] = p[i]
    <3> DEFINE j == i + 1
    <3>1. j \in 1 .. 1 + n /\ ~ j <= 1 /\ j - 1 = i
      BY <1>1
    <3> HIDE DEF j, n
    <3>2. q[j] = p[j - 1]
      BY <2>2, <3>1
    <3> QED
      BY <3>1, <3>2 DEF j
  <2> QED
    BY <2>2, <2>3, <2>4, <2>5, <1>1
<1>3. A \subseteq 1 .. n /\ IsFiniteSet(A)
  <2>1. IsFiniteSet(1 .. n)
    BY <1>1, FS_Interval
  <2>2. A \subseteq 1 .. n
    BY <1>1
  <2> HIDE DEF A
  <2> QED
    BY <2>1, <2>2, FS_Subset
<1> HIDE DEF q, n
<1>4. \A i \in A : i + 1 \in C
  BY <1>1, <1>2, <1>3
<1>5. \A j \in C : \E i \in A : i + 1 = j
  <2> TAKE j \in C
  <2>1. j \in 1 .. n + 1 /\ j # 1 /\ q[j] \in H
    BY <1>2
  <2>2. j - 1 \in 1 .. n /\ (j - 1) + 1 = j
    BY <2>1, <1>1
  <2>3. j - 1 \in A
    BY <2>1, <2>2, <1>1, <1>2
  <2> QED
    BY <2>2, <2>3
<1>6. B = IF g \in H THEN C \cup {1} ELSE C
  <2>1. 1 \in DOMAIN q
    BY <1>1, <1>2
  <2> QED
    BY <2>1, <1>2
<1>7. 1 \notin C
  OBVIOUS
<1> HIDE DEF A, B, C
<1>8. f \in Bijection(A, C)
  <2>1. \A i, j \in A : i + 1 = j + 1 => i = j
    BY <1>1, <1>3
  <2> QED
    BY <2>1, <1>4, <1>5 DEF Bijection, Injection, Surjection, IsInjective
<1> HIDE DEF f
<1>9. ExistsBijection(A, C)
  BY <1>8 DEF ExistsBijection
<1>10. IsFiniteSet(C) /\ Cardinality(C) = Cardinality(A)
  BY <1>3, <1>9, FS_Bijection
<1>11. Cardinality(A) \in Nat
  BY <1>3, FS_CardinalityType
<1>12. Cardinality(C \cup {1}) = Cardinality(C) + 1
  BY <1>7, <1>10, FS_AddElement
<1>13. Cardinality(B) = (IF g \in H THEN 1 ELSE 0) + Cardinality(A)
  BY <1>6, <1>10, <1>11, <1>12
<1> QED
  BY <1>11, <1>13 DEF Weight, A, B, q

\* d is the weight of the heaviest path from g.
HeaviestIs(nodes, H, g, d) ==
  /\ \A p \in Paths(nodes)[g] : p \in Seq(DOMAIN nodes) /\ Weight(H, p) <= d
  /\ \E p \in Paths(nodes)[g] : Weight(H, p) = d

\* The depth of a gate, counting those of H, is the weight of its heaviest path: by
\* induction along the circuit.
LEMMA DepthIsHeaviest ==
  ASSUME NEW nodes, Ordered(nodes), NEW H, NEW count,
         count = [g \in DOMAIN nodes |-> IF g \in H THEN 1 ELSE 0]
  PROVE  \A g \in DOMAIN nodes :
           /\ GetDepth(nodes, count)[g] \in Nat
           /\ HeaviestIs(nodes, H, g, GetDepth(nodes, count)[g])
<1> DEFINE d == GetDepth(nodes, count)
           paths == Paths(nodes)
           S == {g \in DOMAIN nodes : HeaviestIs(nodes, H, g, d[g])}
<1>1. /\ Len(nodes) \in Nat /\ DOMAIN nodes = 1 .. Len(nodes)
      /\ \A g \in DOMAIN nodes : nodes[g] \in Node /\ Operands(nodes[g]) \subseteq 1 .. g - 1
  BY LenProperties, ElementOfSeq DEF Ordered, Topological
<1>2. /\ \A g \in DOMAIN nodes : d[g] \in Nat
      /\ \A g \in DOMAIN nodes : d[g] = NodeDepth(nodes[g], count[g], d)
      /\ \A g \in DOMAIN nodes : paths[g] = NodePaths(nodes, g, paths)
  <2>1. Counts(nodes, count)
    BY DEF Counts
  <2> QED
    BY <2>1, DepthEquation, PathsEquation
<1> HIDE DEF d
<1>3. ASSUME NEW g \in DOMAIN nodes, (1 .. g - 1) \subseteq S
      PROVE  g \in S
  <2> DEFINE n == nodes[g]
             own == IF g \in H THEN 1 ELSE 0
  <2>1. n \in Node /\ count[g] = own /\ <<g>> \in Seq(DOMAIN nodes) /\ g \in Nat
    BY <1>1
  <2>2. CASE IsOp(n)
    <3> DEFINE l == n.lhs
               r == n.rhs
    <3>1. Operands(n) = {l, r} /\ l \in DOMAIN nodes /\ r \in DOMAIN nodes /\ l \in S /\ r \in S
      BY <1>1, <1>3, <2>1, <2>2, NodeKinds
    <3>2. paths[g] = {<<g>> \o p : p \in paths[l] \cup paths[r]}
      <4>1. UNION {paths[o] : o \in {l, r}} = paths[l] \cup paths[r]
        OBVIOUS
      <4> QED
        BY <1>2, <3>1, <4>1 DEF NodePaths
    <3>3. d[g] = own + Larger(d[l], d[r])
      BY <1>2, <2>1, <2>2 DEF NodeDepth
    <3>4. HeaviestIs(nodes, H, l, d[l]) /\ HeaviestIs(nodes, H, r, d[r])
      BY <3>1
    <3>5. d[l] \in Nat /\ d[r] \in Nat /\ own \in Nat
      BY <1>2, <3>1
    <3> HIDE DEF n, l, r, S
    <3>6. ASSUME NEW p \in paths[l] \cup paths[r]
          PROVE  /\ p \in Seq(DOMAIN nodes) /\ <<g>> \o p \in Seq(DOMAIN nodes)
                 /\ Weight(H, p) \in Nat /\ Weight(H, <<g>> \o p) = own + Weight(H, p)
      <4>1. p \in Seq(DOMAIN nodes)
        BY <3>4 DEF HeaviestIs
      <4>2. <<g>> \o p \in Seq(DOMAIN nodes)
        BY <2>1, <4>1, ConcatProperties
      <4>3. p \in Seq(Nat)
        <5>1. DOMAIN nodes \subseteq Nat
          BY <1>1
        <5> QED
          BY <4>1, <5>1, SeqInLarger
      <4> QED
        BY <2>1, <4>1, <4>2, <4>3, WeightOfPath
    <3>7. ASSUME NEW p \in paths[l] \cup paths[r]
          PROVE  Weight(H, <<g>> \o p) <= d[g]
      <4>1. Weight(H, p) <= d[l] \/ Weight(H, p) <= d[r]
        BY <3>4 DEF HeaviestIs
      <4>2. Weight(H, p) \in Nat /\ Weight(H, <<g>> \o p) = own + Weight(H, p)
        BY <3>6
      <4> HIDE DEF own
      <4> QED
        BY <3>3, <3>5, <4>1, <4>2 DEF Larger
    <3>8. \E p \in paths[l] \cup paths[r] : Weight(H, <<g>> \o p) = d[g]
      <4>1. PICK p \in paths[l] : Weight(H, p) = d[l]
        BY <3>4 DEF HeaviestIs
      <4>2. PICK q \in paths[r] : Weight(H, q) = d[r]
        BY <3>4 DEF HeaviestIs
      <4>3. Weight(H, <<g>> \o p) = own + d[l] /\ Weight(H, <<g>> \o q) = own + d[r]
        BY <3>6, <4>1, <4>2
      <4>4. d[g] = own + d[l] \/ d[g] = own + d[r]
        BY <3>3 DEF Larger
      <4> QED
        BY <4>1, <4>2, <4>3, <4>4
    <3>9. HeaviestIs(nodes, H, g, d[g])
      BY <3>2, <3>6, <3>7, <3>8 DEF HeaviestIs
    <3> QED
      BY <3>9 DEF S
  <2>3. CASE ~ IsOp(n)
    <3>1. paths[g] = {<<g>>} /\ d[g] = own + 0
      BY <1>2, <2>1, <2>3, NodeKinds DEF NodePaths, NodeDepth
    <3>2. Weight(H, <<g>>) = own
      BY WeightOfOne
    <3>3. HeaviestIs(nodes, H, g, d[g])
      BY <2>1, <3>1, <3>2 DEF HeaviestIs
    <3> QED
      BY <3>3
  <2> QED
    BY <2>2, <2>3
<1>4. DOMAIN nodes \subseteq S
  <2> HIDE DEF S
  <2> QED
    BY <1>1, <1>3, PositionInduction
<1> QED
  BY <1>2, <1>4 DEF d

\* There is one maximum.
LEMMA MaximumIs ==
  ASSUME NEW weights \in SUBSET Nat, NEW d \in weights, \A x \in weights : x <= d
  PROVE  (CHOOSE w \in weights : \A x \in weights : x <= w) = d
<1> DEFINE m == CHOOSE w \in weights : \A x \in weights : x <= w
<1>1. m \in weights /\ \A x \in weights : x <= m
  OBVIOUS
<1> HIDE DEF m
<1>2. m \in Nat /\ d \in Nat /\ m <= d /\ d <= m
  BY <1>1
<1>3. m = d
  BY <1>2
<1> QED
  BY <1>3 DEF m

MulDepth(nodes) == GetDepth(nodes, [g \in DOMAIN nodes |-> MulCounter(nodes[g])])
GateDepth(nodes) == GetDepth(nodes, [g \in DOMAIN nodes |-> TotalGateDepthCounter(nodes[g])])

\* The weights of the paths from a gate, and their maximum.
PathWeights(nodes, H, g) == {Weight(H, p) : p \in Paths(nodes)[g]}

LEMMA WeightsMaximum ==
  ASSUME NEW nodes, Ordered(nodes), NEW H, NEW g \in DOMAIN nodes, NEW d \in Nat,
         HeaviestIs(nodes, H, g, d), NEW weights, weights = PathWeights(nodes, H, g)
  PROVE  (CHOOSE w \in weights : \A x \in weights : x <= w) = d
<1>1. \A p \in Paths(nodes)[g] : Weight(H, p) \in Nat
  <2> SUFFICES ASSUME NEW p \in Paths(nodes)[g]
               PROVE  Weight(H, p) \in Nat
    OBVIOUS
  <2>1. DOMAIN nodes \subseteq Nat
    BY LenProperties DEF Ordered
  <2>2. p \in Seq(DOMAIN nodes)
    BY DEF HeaviestIs
  <2>3. p \in Seq(Nat)
    BY <2>1, <2>2, SeqInLarger
  <2> QED
    BY <2>3, WeightOfPath
<1>2. weights \in SUBSET Nat /\ d \in weights /\ \A x \in weights : x <= d
  BY <1>1 DEF HeaviestIs, PathWeights
<1> QED
  BY <1>2, MaximumIs

LEMMA MulDepthIsHeaviest ==
  ASSUME NEW c, Ordered(c.gates), NEW g \in DOMAIN c.gates
  PROVE  MulDepth(c.gates)[g] \in Nat /\ MulDepth(c.gates)[g] = Heaviest(c, g, IsMul)
<1> DEFINE nodes == c.gates
           H == {h \in DOMAIN nodes : IsMul(nodes[h])}
           count == [h \in DOMAIN nodes |-> MulCounter(nodes[h])]
           weights == {Cardinality({i \in DOMAIN p : IsMul(nodes[p[i]])}) : p \in Paths(nodes)[g]}
           d == MulDepth(nodes)[g]
<1>1. count = [h \in DOMAIN nodes |-> IF h \in H THEN 1 ELSE 0]
  BY DEF MulCounter, IsMul
<1>2. d \in Nat /\ HeaviestIs(nodes, H, g, d)
  <2> HIDE DEF H, count
  <2> QED
    BY <1>1, DepthIsHeaviest DEF MulDepth, count
<1>3. weights = PathWeights(nodes, H, g)
  <2>1. ASSUME NEW p \in Paths(nodes)[g]
        PROVE  Cardinality({i \in DOMAIN p : IsMul(nodes[p[i]])}) = Weight(H, p)
    <3>1. p \in Seq(DOMAIN nodes)
      BY <1>2 DEF HeaviestIs
    <3>2. \A i \in DOMAIN p : p[i] \in DOMAIN nodes
      BY <3>1, LenProperties, ElementOfSeq
    <3>3. {i \in DOMAIN p : IsMul(nodes[p[i]])} = {i \in DOMAIN p : p[i] \in H}
      BY <3>2
    <3> QED
      BY <3>3 DEF Weight
  <2> HIDE DEF H
  <2> QED
    BY <2>1 DEF PathWeights
<1>4. Heaviest(c, g, IsMul) = CHOOSE w \in weights : \A x \in weights : x <= w
  BY DEF Heaviest
<1> HIDE DEF weights, H, d, count
<1>5. (CHOOSE w \in weights : \A x \in weights : x <= w) = d
  BY <1>2, <1>3, WeightsMaximum
<1> QED
  BY <1>2, <1>4, <1>5 DEF d

LEMMA GateDepthIsHeaviest ==
  ASSUME NEW c, Ordered(c.gates), NEW g \in DOMAIN c.gates
  PROVE  GateDepth(c.gates)[g] = Heaviest(c, g, IsOp)
<1> DEFINE nodes == c.gates
           H == {h \in DOMAIN nodes : IsOp(nodes[h])}
           count == [h \in DOMAIN nodes |-> TotalGateDepthCounter(nodes[h])]
           weights == {Cardinality({i \in DOMAIN p : IsOp(nodes[p[i]])}) : p \in Paths(nodes)[g]}
           d == GateDepth(nodes)[g]
<1>1. count = [h \in DOMAIN nodes |-> IF h \in H THEN 1 ELSE 0]
  <2>1. \A h \in DOMAIN nodes : nodes[h] \in Node
    BY LenProperties, ElementOfSeq DEF Ordered
  <2> QED
    BY <2>1, NodeKinds DEF TotalGateDepthCounter
<1>2. d \in Nat /\ HeaviestIs(nodes, H, g, d)
  <2> HIDE DEF H, count
  <2> QED
    BY <1>1, DepthIsHeaviest DEF GateDepth, count
<1>3. weights = PathWeights(nodes, H, g)
  <2>1. ASSUME NEW p \in Paths(nodes)[g]
        PROVE  Cardinality({i \in DOMAIN p : IsOp(nodes[p[i]])}) = Weight(H, p)
    <3>1. p \in Seq(DOMAIN nodes)
      BY <1>2 DEF HeaviestIs
    <3>2. \A i \in DOMAIN p : p[i] \in DOMAIN nodes
      BY <3>1, LenProperties, ElementOfSeq
    <3>3. {i \in DOMAIN p : IsOp(nodes[p[i]])} = {i \in DOMAIN p : p[i] \in H}
      BY <3>2
    <3> QED
      BY <3>3 DEF Weight
  <2> HIDE DEF H
  <2> QED
    BY <2>1 DEF PathWeights
<1>4. Heaviest(c, g, IsOp) = CHOOSE w \in weights : \A x \in weights : x <= w
  BY DEF Heaviest
<1> HIDE DEF weights, H, d, count
<1>5. (CHOOSE w \in weights : \A x \in weights : x <= w) = d
  BY <1>2, <1>3, WeightsMaximum
<1> QED
  BY <1>4, <1>5 DEF d

\* The depth that the mock backend computes gate by gate is the one of the analysis.
LEMMA ElementsDepth ==
  ASSUME BackendInv, Mock, verdict \in {"running", "ok"}
  PROVE  \A g \in DOMAIN elems : elems[g].depth = MulDepth(circuit.gates)[g]
<1> DEFINE nodes == circuit.gates
           count == [h \in DOMAIN nodes |-> MulCounter(nodes[h])]
           d == MulDepth(nodes)
           S == {g \in Gates : g \in DOMAIN elems => elems[g].depth = d[g]}
<1>1. /\ Len(nodes) \in Nat /\ Gates = 1 .. Len(nodes) /\ Gates = DOMAIN nodes
      /\ \A g \in Gates : nodes[g] \in Node /\ Operands(nodes[g]) \subseteq 1 .. g - 1
  BY GateFacts DEF BackendInv, Gates
<1>2. \A g \in Gates : d[g] \in Nat /\ d[g] = NodeDepth(nodes[g], MulCounter(nodes[g]), d)
  <2>1. Ordered(nodes)
    BY DEF BackendInv, CallGiven, Ordered
  <2>2. Counts(nodes, count)
    BY DEF Counts, MulCounter
  <2>3. \A g \in DOMAIN nodes : d[g] \in Nat /\ d[g] = NodeDepth(nodes[g], count[g], d)
    BY <2>1, <2>2, DepthEquation DEF MulDepth
  <2> QED
    BY <1>1, <2>3
<1> HIDE DEF d
<1>3. ASSUME NEW g \in Gates, (1 .. g - 1) \subseteq S
      PROVE  g \in S
  <2> SUFFICES ASSUME g \in DOMAIN elems
               PROVE  elems[g].depth = d[g]
    OBVIOUS
  <2> DEFINE n == nodes[g]
  <2>1. n \in Node /\ Operands(n) \subseteq DOMAIN elems /\ elems[g] = Evaluated(g)
    BY <1>1 DEF BackendInv, EachFromItsOperands
  <2>2. \A o \in Operands(n) : elems[o].depth = d[o] /\ d[o] \in Nat
    BY <1>1, <1>2, <1>3, <2>1
  <2>3. CASE IsOp(n)
    <3>1. Operands(n) = {n.lhs, n.rhs}
      BY <2>1, <2>3, NodeKinds
    <3>2. elems[g].depth = DepthOf(n.op, elems[n.lhs].depth, elems[n.rhs].depth)
      BY <2>1, <2>3, SMTT(30) DEF Evaluated, Combine, Element, IsOp, IsInput, IsConst
    <3>3. elems[g].depth = Larger(d[n.lhs], d[n.rhs]) + IF n.op = "Mul" THEN 1 ELSE 0
      BY <2>2, <3>1, <3>2 DEF DepthOf
    <3>4. d[g] = (IF n.op = "Mul" THEN 1 ELSE 0) + Larger(d[n.lhs], d[n.rhs])
      BY <1>2, <2>3 DEF NodeDepth, MulCounter
    <3>5. Larger(d[n.lhs], d[n.rhs]) \in Nat
      BY <2>2, <3>1 DEF Larger
    <3> QED
      BY <3>3, <3>4, <3>5
  <2>4. CASE ~ IsOp(n)
    <3>1. d[g] = 0 + 0
      BY <1>2, <2>4 DEF NodeDepth, MulCounter
    <3>2. elems[g].depth = 0
      BY <2>1, <2>4, NodeKinds DEF Evaluated, FromInput, FromConstant, Element
    <3> QED
      BY <3>1, <3>2
  <2> QED
    BY <2>3, <2>4
<1>4. Gates \subseteq S
  <2> HIDE DEF S
  <2> QED
    BY <1>1, <1>3, PositionInduction
<1> QED
  BY <1>4 DEF d, BackendInv, BackendTypeOK

\* However much a circuit shares, the depths that its analysis reports, and the ones that
\* the mock backend computes on the way, are those of the heaviest paths.
THEOREM DepthsAreThoseOfPaths == BackendSpec => []DepthsAreHeaviestPaths
<1>1. BackendInit => ResultsHeld
  BY DEF BackendInit, ResultsHeld
<1>2. ASSUME BackendInv, ResultsHeld, [BackendNext]_backendVars
      PROVE  ResultsHeld'
  BY <1>2, ResultsKept
<1>3. ASSUME BackendInv, ResultsHeld, verdict = "ok"
      PROVE  LET depth == Analyse(circuit).depth_analysis IN
             /\ \A i \in DOMAIN circuit.outputs :
                  /\ depth.mul[i] = Heaviest(circuit, circuit.outputs[i], IsMul)
                  /\ depth.gate[i] = Heaviest(circuit, circuit.outputs[i], IsOp)
             /\ Mock => \A i \in DOMAIN results :
                          results[i].depth = Heaviest(circuit, Answered[i], IsMul)
  <2> DEFINE depth == Analyse(circuit).depth_analysis
  <2>1. Ordered(circuit.gates)
    BY <1>3 DEF BackendInv, CallGiven, Ordered
  <2>2. /\ depth.mul = [i \in DOMAIN circuit.outputs |-> MulDepth(circuit.gates)[circuit.outputs[i]]]
        /\ depth.gate = [i \in DOMAIN circuit.outputs |-> GateDepth(circuit.gates)[circuit.outputs[i]]]
    BY DEF Analyse, DepthAnalysis, MulDepth, GateDepth
  <2>3. \A i \in DOMAIN circuit.outputs : circuit.outputs[i] \in DOMAIN circuit.gates
    <3>1. circuit.outputs \in Seq(DOMAIN circuit.gates)
      BY <1>3 DEF BackendInv, CallGiven, Gates
    <3> QED
      BY <3>1, LenProperties, ElementOfSeq
  <2>4. \A i \in DOMAIN circuit.outputs :
          /\ depth.mul[i] = Heaviest(circuit, circuit.outputs[i], IsMul)
          /\ depth.gate[i] = Heaviest(circuit, circuit.outputs[i], IsOp)
    <3> HIDE DEF depth
    <3> QED
      BY <2>1, <2>2, <2>3, MulDepthIsHeaviest, GateDepthIsHeaviest
  <2>5. ASSUME Mock, NEW i \in DOMAIN results
        PROVE  results[i].depth = Heaviest(circuit, Answered[i], IsMul)
    <3>1. i \in DOMAIN Answered /\ results[i] = elems[Answered[i]]
      BY <1>3, <2>5 DEF ResultsHeld
    <3>2. Answered[i] \in DOMAIN elems
      BY <1>3, <3>1, AnsweredEvaluated
    <3>3. Answered[i] \in DOMAIN circuit.gates
      BY <1>3, <3>2 DEF BackendInv, BackendTypeOK, Gates
    <3>4. elems[Answered[i]].depth = MulDepth(circuit.gates)[Answered[i]]
      BY <1>3, <2>5, <3>2, ElementsDepth
    <3> QED
      BY <2>1, <3>1, <3>3, <3>4, MulDepthIsHeaviest
  <2> QED
    BY <2>4, <2>5
<1>4. BackendInv /\ ResultsHeld => DepthsAreHeaviestPaths
  BY <1>3 DEF DepthsAreHeaviestPaths
<1> QED
  BY <1>1, <1>2, <1>4, BackendInvHolds, PTL DEF BackendSpec
=============================================================================
