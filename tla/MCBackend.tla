------------------------------ MODULE MCBackend ------------------------------
(* Small instances of Backend for TLC.                                       *)
EXTENDS Backend, CircuitFamilies

Plain == [kind |-> "PlainModQ", noise_budget |-> 0]
MockFHE(budget) == [kind |-> "MockFHE", noise_budget |-> budget]

\* 6 is a budget that two multiplications of inputs exceed, 41 that of a fourth power.
SomeBackends == {Plain, MockFHE(6), MockFHE(41)}

\* Small circuits, with any outputs.
SmallCircuits == UNION {
  CircuitsOver(TwoInputs, {"Mul"}, 2, Squareless),
  CircuitsOver(<<InputNode(0), ConstNode(5)>>, {"Sub"}, 2, Squareless),
  CircuitsOver(<<InputNode(0), ConstNode(5)>>, {"Sub", "Mul"}, 1, Anything) }

\* A fourth power, compiled with a product; a product and a difference; an output twice;
\* a circuit from which the first input has gone; most operations on one path, the
\* multiplication on the other; an eighth power, whose noise of 41 * 41 + 5 a usize of 64
\* values does not hold, and wraps to 22, which is within the budget.
Power == [gates |-> <<InputNode(0), OpNode("Mul", 1, 1), OpNode("Mul", 2, 2)>>, outputs |-> <<3, 2>>]
Eighth == [gates |-> <<InputNode(0), OpNode("Mul", 1, 1), OpNode("Mul", 2, 2), OpNode("Mul", 3, 3)>>,
           outputs |-> <<4>>]
Sum == [gates |-> <<InputNode(0), InputNode(1), OpNode("Mul", 1, 2), OpNode("Sub", 3, 1)>>, outputs |-> <<3, 4>>]
Twice == [gates |-> <<InputNode(0), InputNode(1), OpNode("Mul", 1, 2)>>, outputs |-> <<3, 3>>]
Gap == [gates |-> <<InputNode(1), ConstNode(2), OpNode("Add", 1, 2)>>, outputs |-> <<3>>]
TwoPaths == [gates |-> TwoInputs \o <<OpNode("Mul", 1, 2), OpNode("Add", 1, 2),
                                      OpNode("Sub", 4, 2), OpNode("Add", 3, 5)>>,
             outputs |-> <<6, 3, 5>>]

SomeCircuits == SmallCircuits \cup {Power, Eighth, Sum, Twice, Gap, TwoPaths}

\* Four and eight divide the number of words, three does not.
TwoModuli == {4, 8}
Three == {3}
SomeArguments == {<<3>>, <<3, 2>>}

OnePlain == {Plain}
Difference == {[gates |-> <<InputNode(0), InputNode(1), OpNode("Sub", 1, 2)>>, outputs |-> <<3>>]}
=============================================================================
