--------------------------- MODULE CircuitFamilies ---------------------------
(* Circuits for the runs: those the compiler can make over given leaves with *)
(* up to a number of operations.                                             *)
EXTENDS Circuit

\* An operation that a circuit of the compiler may have next.
NewOps(all, ops) ==
  {n \in [kind : {"Op"}, op : ops, lhs : DOMAIN all, rhs : DOMAIN all] :
     /\ \A g \in DOMAIN all : Canonical(all[g]) # Canonical(n)
     /\ ~ (IsConst(all[n.lhs]) /\ IsConst(all[n.rhs]))}

\* The gates that grow from `leaves' by 1 to `most' operations, Fit after each.
Grown(leaves, ops, most, Fit(_)) ==
  LET grown[n \in 0 .. most] ==
        IF n = 0 THEN {leaves}
        ELSE {all \in UNION {{Append(g, op) : op \in NewOps(g, ops)} : g \in grown[n - 1]} :
                Fit(all)}
  IN  UNION {grown[n] : n \in 1 .. most}

\* The outputs are the operations that nothing uses, and perhaps others.
Sinks(all) == {g \in DOMAIN all : Users(all, g) = {}}
InOrder(S, all) == SelectSeq([g \in DOMAIN all |-> g], LAMBDA g : g \in S)
WithOutputs(all) ==
  LET sinks == Sinks(all)
      others == {g \in DOMAIN all : IsOp(all[g])} \ sinks
  IN  {[gates |-> all, outputs |-> InOrder(outs, all)] :
         outs \in {sinks \cup more : more \in SUBSET others}}

CircuitsOver(leaves, ops, most, Fit(_)) ==
  UNION {WithOutputs(all) : all \in {g \in Grown(leaves, ops, most, Fit) :
                                       Sinks(g) \cap DOMAIN leaves = {}}}

Anything(all) == TRUE

\* Compiled with a single output.
OneOutput(circuits) == {c \in circuits : Len(c.outputs) = 1}

TwoInputs == <<InputNode(0), InputNode(1)>>
ThreeInputs == <<InputNode(0), InputNode(1), InputNode(2)>>
OneInput == <<InputNode(0), ConstNode(1), ConstNode(2)>>

FewIndices == 0 .. 2
MoreIndices == 0 .. 3
SomeConstants == {1, 2, 3, 5, 6}
AllOps == BinOp
=============================================================================
