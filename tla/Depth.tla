-------------------------------- MODULE Depth --------------------------------
(* passes::depth: how deep a gate is, in multiplications (MulCounter) and in  *)
(* operations (TotalGateDepthCounter); and passes::analysis.                  *)
EXTENDS Circuit

\* A slip: the left operand's depth only.
LeftOne(x, y) == x

Larger(x, y) == IF x < y THEN y ELSE x

MulCounter(n) == IF IsOp(n) /\ n.op = "Mul" THEN 1 ELSE 0

TotalGateDepthCounter(n) == IF IsInput(n) \/ IsConst(n) THEN 0 ELSE 1

\* get_depth, for every gate of topologically ordered gates; count is what the counter
\* adds at each.
GetDepth(gates, count) ==
  LET depth[g \in DOMAIN gates] ==
        LET n == gates[g] IN
        count[g] + IF IsOp(n) THEN Larger(depth[n.lhs], depth[n.rhs]) ELSE 0
  IN  depth

DepthAnalysis(c) ==
  LET mul == GetDepth(c.gates, [g \in DOMAIN c.gates |-> MulCounter(c.gates[g])])
      gate == GetDepth(c.gates, [g \in DOMAIN c.gates |-> TotalGateDepthCounter(c.gates[g])])
  IN  [ mul  |-> [i \in DOMAIN c.outputs |-> mul[c.outputs[i]]],
        gate |-> [i \in DOMAIN c.outputs |-> gate[c.outputs[i]]] ]

\* analyse.
Analyse(c) ==
  [ num_inputs |-> Cardinality(InputGates(c.gates)),
    num_outputs |-> Len(c.outputs),
    depth_analysis |-> DepthAnalysis(c) ]
-----------------------------------------------------------------------------
(* What the depths are, by paths and not by recursion on the maximum.         *)

\* The ways from a gate down to a leaf, each a sequence of gates.
Paths(gates) ==
  LET paths[g \in DOMAIN gates] ==
        IF Operands(gates[g]) = {} THEN {<<g>>}
        ELSE {<<g>> \o p : p \in UNION {paths[o] : o \in Operands(gates[g])}}
  IN  paths

\* The most gates with property P on one path from an output.
Heaviest(c, o, P(_)) ==
  LET weights == {Cardinality({i \in DOMAIN p : P(c.gates[p[i]])}) : p \in Paths(c.gates)[o]}
  IN  CHOOSE w \in weights : \A x \in weights : x <= w

IsMul(n) == IsOp(n) /\ n.op = "Mul"
=============================================================================
