---------------------------- MODULE MCReassociate ----------------------------
(* Small instances of ReassociatePass for TLC: the circuits over given       *)
(* leaves with up to a number of operations, and single circuits that the    *)
(* DSL makes of a few lines.                                                 *)
EXTENDS ReassociatePass, CircuitFamilies

\* Circuits in which a root takes apart an operation on leaves and its three leaves
\* differ; no squares.  Outside this family the pass goes wrong in several ways.  An
\* operation on leaves has them in ascending order: the other order only swaps which
\* candidate is tried first.
OnLeaves(all, g) == IsOp(all[g]) /\ \A o \in Operands(all[g]) : IsLeaf(all[o])

Flat(all) ==
  LET g == Len(all)
      inner == {o \in Operands(all[g]) : IsOp(all[o])}
  IN  /\ all[g].lhs # all[g].rhs
      /\ IF inner = {}
         THEN all[g].lhs < all[g].rhs
         ELSE \A o \in inner : /\ OnLeaves(all, o)
                               /\ Operands(all[g]) \cap Operands(all[o]) = {}

LargeConstants == <<InputNode(0), ConstNode(5), ConstNode(6)>>

FlatCircuits == UNION {
  CircuitsOver(ThreeInputs, {"Add"}, 3, Flat),
  CircuitsOver(OneInput, {"Add"}, 4, Flat),
  CircuitsOver(OneInput, {"Sub", "Mul"}, 3, Flat),
  CircuitsOver(LargeConstants, {"Add"}, 2, Flat) }

\* compile_many of ((x+y)+z)+w, (x+y)+w and x+w: the first two are rewritten in
\* one round, and then (x+y)+z and x+y, its operand, are to be killed.
NestedReuse ==
  { [gates |-> <<InputNode(0), InputNode(1), OpNode("Add", 1, 2), InputNode(2),
                 OpNode("Add", 3, 4), InputNode(3), OpNode("Add", 5, 6),
                 OpNode("Add", 3, 6), OpNode("Add", 1, 6)>>,
     outputs |-> <<7, 8, 9>>] }

SomeCircuits == FlatCircuits \cup NestedReuse

\* let c = a*b + 2 + 3, compiled alone.
SumOfProduct ==
  { [gates |-> <<InputNode(0), InputNode(1), OpNode("Mul", 1, 2), ConstNode(2),
                 OpNode("Add", 3, 4), ConstNode(3), OpNode("Add", 5, 6)>>,
     outputs |-> <<7>>] }
=============================================================================
