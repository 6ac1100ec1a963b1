----------------------------- MODULE MCRebalance -----------------------------
(* Small instances of Rebalance for TLC.                                     *)
EXTENDS Rebalance, CircuitFamilies

\* The order of the operands of + and * makes no difference to the pass.
OperandsAscend(all) == LET n == all[Len(all)] IN n.lhs < n.rhs

SumCircuits == UNION {
  OneOutput(CircuitsOver(ThreeInputs, {"Add", "Mul"}, 3, OperandsAscend)),
  OneOutput(CircuitsOver(OneInput, {"Add", "Mul"}, 3, OperandsAscend)) }

\* ((a op b) op c) op ... of n inputs.
Chain(op, n) ==
  [gates |-> [g \in 1 .. n |-> InputNode(g - 1)] \o <<OpNode(op, 1, 2)>>
               \o [k \in 1 .. n - 2 |-> OpNode(op, k + 2, k + n)],
   outputs |-> <<2 * n - 1>>]
Chains == {Chain("Mul", 4), Chain("Mul", 5), Chain("Add", 5)}
FiveIndices == 0 .. 4

\* Any outputs, squares, and constants whose sum is no word: the pass may then panic,
\* or not find an output.
AnyCircuits == UNION {
  CircuitsOver(OneInput, {"Add", "Mul"}, 2, Anything),
  CircuitsOver(<<InputNode(0)>>, {"Add", "Mul"}, 3, Anything),
  CircuitsOver(<<InputNode(0), ConstNode(5), ConstNode(6)>>, {"Add"}, 2, Anything) }

\* (((x+1)+x)+2)+x is one tree in which x comes thrice: the queue may combine two.
Thrice ==
  { [gates |-> <<InputNode(0), ConstNode(1), OpNode("Add", 1, 2), OpNode("Add", 3, 1),
                 ConstNode(2), OpNode("Add", 4, 5), OpNode("Add", 6, 1)>>,
     outputs |-> <<7>>] }

AllCircuits == UNION {SumCircuits, Chains, AnyCircuits, Thrice}

\* (a-b)-c.
Difference ==
  { [gates |-> <<InputNode(0), InputNode(1), OpNode("Sub", 1, 2), InputNode(2), OpNode("Sub", 3, 4)>>,
     outputs |-> <<5>>] }
=============================================================================
