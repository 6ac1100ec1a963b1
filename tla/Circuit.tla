------------------------------- MODULE Circuit -------------------------------
(* ir::circuit::Circuit: a list of gates and which of them are the outputs.  *)
(* The passes and the backends take and give circuits, so the circuits that  *)
(* a run looks at are a constant, as the graph is of a graph algorithm.      *)
EXTENDS Dag, FiniteSets

CONSTANT Circuits

\* The inputs of a circuit are its input gates.
InputGates(gates) == {g \in DOMAIN gates : IsInput(gates[g])}

\* The gates that use gate g as an operand, among those of `gates'.
Users(gates, g) == {u \in DOMAIN gates : g \in Operands(gates[u])}

\* What the compiler makes, see the theorems on Compiler and Context: gates in
\* topological order, no two the same, no operation on two constants, and each
\* needed by an output: one that no gate uses is an output.
Compiled(c) ==
  /\ c.gates \in Seq(Node) /\ c.outputs \in Seq(DOMAIN c.gates)
  /\ Topological(c.gates)
  /\ \A g, h \in DOMAIN c.gates : Canonical(c.gates[g]) = Canonical(c.gates[h]) => g = h
  /\ \A g \in DOMAIN c.gates : IsOp(c.gates[g]) =>
       ~ (IsConst(c.gates[c.gates[g].lhs]) /\ IsConst(c.gates[c.gates[g].rhs]))
  /\ \A g \in DOMAIN c.gates : Users(c.gates, g) = {} => g \in Range(c.outputs)

ASSUME CircuitAssumption == \A c \in Circuits : Compiled(c)

\* A gate's users, and itself if it is an output, which keeps it from being
\* killed: what learn_topology_of fills the usages with.
Uses(gates, outputs, g) == Users(gates, g) \cup ({g} \cap Range(outputs))

\* Every element is greater than those before it.
Ascending(s) == \A i, j \in DOMAIN s : i < j => s[i] < s[j]

\* No operation has the same operand twice.
Squareless(all) ==
  \A g \in DOMAIN all : IsOp(all[g]) => all[g].lhs # all[g].rhs
=============================================================================
